---------------------------- MODULE Spec2Model ----------------------------
(***************************************************************************)
(* A model of the KAOS x64 kernel core: the task list and the round-robin  *)
(* scheduler (kernel/multitasking/multitasking.c, kernel/list.c), the      *)
(* kernel heap (kernel/memory/heap.c), the physical page frame allocator  *)
(* (kernel/memory/physical-memory.c), the virtual memory manager with the  *)
(* page tables (kernel/memory/virtual-memory.c) and the exception handler  *)
(* (kernel/isr/idt.c).                                                     *)
(*                                                                         *)
(* Interrupts are disabled inside interrupt and system call handlers, so   *)
(* MoveToNextTask (timer tick) and the system calls are atomic steps.      *)
(*                                                                         *)
(* Memory that was never written reads as zero: the kernel relies on this  *)
(* everywhere (HandlePageFault installs page tables without clearing       *)
(* them, the heap walks stop at the first header whose Size is 0).         *)
(***************************************************************************)
EXTENDS Integers, Sequences, FiniteSets, TLC

\* ------------------------------------------------------------------ bounds
MaxPrograms == 2
MaxTicks == 6
MaxLive == 4
MaxHeapPages == 2
MaxTracked == 3
MaxReleases == 2
MaxFaults == 2
MaxSysCalls == 3
MaxFileOps == 4

\* --------------------------------------------------------------- constants
NULL == 0
TASK_STATUS_CREATED == 0
TASK_STATUS_RUNNABLE == 1
TASK_STATUS_RUNNING == 2
TASK_STATUS_WAITING == 3

\* CreateInitialTasks creates three tasks (PIDs 1, 2 and 4);
\* StartUserModeTask starts every user program with PID 10.
InitialTasks == 3
USER_PID == 10

\* The ListEntry blocks the heap can hold at once: one per task, and one more
\* while MoveToNextTask has unlinked the old head without freeing it.
MaxEntries == InitialTasks + MaxPrograms + 1

\* What a field that the code never initialises may hold (heap memory that
\* was used before keeps its old content).
UninitValues == {0, 3}

\* F(x), with x evaluated once: the result of a statement that the
\* statements after it read.
Bind(x, F(_)) == CHOOSE r \in {F(v) : v \in {x}} : TRUE

VARIABLES
    TaskList,   \* the List structure: RootEntry, Count
    entry,      \* the ListEntry structures of the TaskList, by address
    task,       \* the Task structures, by address (a sequence: 1..Len)
    counter,    \* the tick counter of multitasking.c
    systemDate, \* Year .. Second of the BIOS Information Block
    current,    \* the Task the CPU executes (register R15), NULL while booting
    nullWrite,  \* a store through a null pointer has hit address 0x18
    wild,       \* the kernel has read a pointer from address 0 and followed it
    observe,    \* history: an observer counts dispatches per window of ticks
    winTicks,   \* history: ticks since the current observation window began
    winBase     \* history: every task's ContextSwitches when the window began

schedVars == <<TaskList, entry, task, counter, systemDate, current, nullWrite, wild,
               observe, winTicks, winBase>>

VARIABLES
    heap,               \* the HeapBlock headers in memory, by address
    HEAP_END_OFFSET,
    isHeapInitialized,
    allocated,          \* the pointers malloc has returned and nobody has freed
    inHeap,             \* where in malloc or free the task is that a timer tick may interrupt
    listBlocks          \* the pointers malloc has returned for the ListEntries of the TaskList

heapVars == <<heap, HEAP_END_OFFSET, isHeapInitialized, allocated, inHeap, listBlocks>>

VARIABLES
    memLayout,          \* the PhysicalMemoryRegionDescriptors with their bitmap masks
    bib,                \* the BiosInformationBlock: MaxMemory, AvailablePageFrames
    TrackedPageFrames,  \* the pointer to the list of tracked page frames
    tracked,            \* the List it points to and its entries
    pfn                 \* what the last call of AllocatePageFrame returned

pfaVars == <<memLayout, bib, TrackedPageFrames, tracked, pfn>>

VARIABLES
    pageTables,     \* the physical memory that holds page tables, by page frame
    pml4Address,    \* the global of virtual-memory.c: the PML4 of the kernel
    CR3,            \* the field CR3 of the Task structures, by address
    TEMPORARY_VIRTUAL_PAGE, \* the value of the macro
    cr2,            \* the registers when the last page fault was handled:
    cr3,            \*   the address that faulted and the page frame of the PML4
    pageFaults,     \* the page faults the tasks have taken
    faultLoop,      \* the task that loads programs faults at one address for ever
    lost,           \* the page tables hold the -1 of AllocatePageFrame as a frame
    halted,         \* IsrHandler spins in its endless loop
    userWrites,     \* history: the addresses code of ring 3 has written to
    mapCall         \* history: the last MapVirtualAddressToPhysicalAddress(v, p) and
                    \*   the page table entry of v when it returned

vmmVars == <<pageTables, pml4Address, CR3, TEMPORARY_VIRTUAL_PAGE, cr2, cr3,
             pageFaults, faultLoop, lost, halted, userWrites, mapCall>>

VARIABLES
    tssEntry,           \* the TssEntry that GetTss returns
    KernelModeStack     \* the field KernelModeStack of the Task structures, by address

tssVars == <<tssEntry, KernelModeStack>>

VARIABLES
    ROOT_DIRECTORY_BUFFER,  \* the root directory in memory: the entries in use, by index
    FAT_BUFFER,             \* the FAT in memory, byte by byte
    FileDescriptorList,     \* the list of the open files with its entries
    fileDescriptor,         \* the FileDescriptor structures, by address (1..Len)
    disk,                   \* the data area of the disk, sector by sector
    diskRootDirectory,      \* the root directory on the disk
    diskFAT,                \* the two FATs on the disk
    UserBuffer,             \* the buffer of the caller after the last ReadFile
    heapOverflow,           \* a function has written behind the end of a heap block
    ataStuck,               \* a sector behind the end of the disk was asked for
    fileOps                 \* history: the calls of the file system so far

fatVars == <<ROOT_DIRECTORY_BUFFER, FAT_BUFFER, FileDescriptorList, fileDescriptor, disk,
             diskRootDirectory, diskFAT, UserBuffer, heapOverflow, ataStuck, fileOps>>

VARIABLES
    Registers,                      \* the SysCallRegisters of the last system call
    RAX,                            \* what SysCallHandlerC returned for it
    called,                         \* history: the branch of SysCallHandlerC it took
    sysCalls,                       \* history: the number of system calls so far
    KEYBOARD_BUFFER,                \* the character at this address
    USERMODE_PROGRAMM_TO_EXECUTE,   \* the string at this address: the program to start
    loader,                         \* where StartUserModeTask stands
    owed                            \* history: the programs accepted and not yet started

sysVars == <<Registers, RAX, called, sysCalls, KEYBOARD_BUFFER,
             USERMODE_PROGRAMM_TO_EXECUTE, loader, owed>>

VARIABLES
    InterruptHandlers,  \* the array of irq.c, by interrupt number
    ports,              \* what the last IrqHandler wrote to the ports and called, in order
    InterruptNumber     \* the interrupt the last IrqHandler was called for

irqVars == <<InterruptHandlers, ports, InterruptNumber>>

ioVars == <<fatVars, sysVars, irqVars>>

\* ------------------------------------------------------------------ list.c
Addr == 1..MaxEntries

\* A ListEntry block that is not allocated.
FreeEntry == [Payload |-> NULL, Key |-> 0, Next |-> NULL, Previous |-> NULL, Used |-> FALSE]

\* NewList: an empty list. The state of a list is the List structure, the
\* entries in memory and whether a null pointer was written through.
NewList ==
    [List |-> [RootEntry |-> NULL, Count |-> 0],
     Entry |-> [a \in Addr |-> FreeEntry],
     NullWrite |-> FALSE]

RECURSIVE Walk(_, _, _)
Walk(E, a, n) ==
    IF a = NULL \/ n = 0 THEN << >> ELSE <<a>> \o Walk(E, E[a].Next, n - 1)

\* The entries reachable from RootEntry over Next, in order.
ListAddrs(LS) == Walk(LS.Entry, LS.List.RootEntry, MaxEntries + 1)

\* malloc(sizeof(ListEntry)): the lowest block that is not in use.
MallocEntry(E) == CHOOSE a \in Addr : ~E[a].Used /\ \A b \in Addr : ~E[b].Used => a <= b

HasFreeEntry(E) == \E a \in Addr : ~E[a].Used

NewListEntry(Payload, Key) ==
    [Payload |-> Payload, Key |-> Key, Next |-> NULL, Previous |-> NULL, Used |-> TRUE]

RECURSIVE LastEntry(_, _)
LastEntry(E, a) == IF E[a].Next = NULL THEN a ELSE LastEntry(E, E[a].Next)

\* A faulty AddEntryToList: the new entry is linked in front of the root.
AddEntryToList_AtHead(LS, Payload, Key) ==
    LET E == LS.Entry
        newEntry == MallocEntry(E)
        root == LS.List.RootEntry
        E1 == [E EXCEPT ![newEntry] = [NewListEntry(Payload, Key) EXCEPT !.Next = root]]
    IN  [LS EXCEPT !.List.RootEntry = newEntry,
                   !.List.Count = @ + 1,
                   !.Entry = IF root = NULL THEN E1
                             ELSE [E1 EXCEPT ![root].Previous = newEntry]]

AddEntryToList(LS, Payload, Key) ==
    LET E == LS.Entry
        newEntry == MallocEntry(E)
        E1 == [E EXCEPT ![newEntry] = NewListEntry(Payload, Key)]
    IN  IF LS.List.RootEntry = NULL
        THEN [LS EXCEPT !.List.RootEntry = newEntry,
                        !.List.Count = @ + 1,
                        !.Entry = E1]
        ELSE LET currentEntry == LastEntry(E, LS.List.RootEntry)
             IN  [LS EXCEPT !.List.Count = @ + 1,
                            !.Entry = [E1 EXCEPT ![currentEntry].Next = newEntry,
                                                 ![newEntry].Previous = currentEntry]]

\* A faulty GetEntryFromList: the walk does not stop at the first entry
\* with the key and returns the last one.
RECURSIVE FindLastKey(_, _, _, _)
FindLastKey(E, a, Key, found) ==
    IF a = NULL THEN found
    ELSE FindLastKey(E, E[a].Next, Key, IF E[a].Key = Key THEN a ELSE found)

GetEntryFromList_LastMatch(LS, Key) == FindLastKey(LS.Entry, LS.List.RootEntry, Key, NULL)

RECURSIVE FindKey(_, _, _)
FindKey(E, a, Key) ==
    IF a = NULL THEN NULL
    ELSE IF E[a].Key = Key THEN a
    ELSE FindKey(E, E[a].Next, Key)

GetEntryFromList(LS, Key) == FindKey(LS.Entry, LS.List.RootEntry, Key)

\* RemoveEntryFromList for Entry # NULL. A store to NULL->Previous lands at
\* address 0x18 of the identity mapped first page: it changes no list.
RemoveEntryFromList(LS, Entry, FreeMemory) ==
    LET E == LS.Entry
        nextEntry == E[Entry].Next
        previousEntry == E[Entry].Previous
        E1 == IF previousEntry = NULL
              THEN IF nextEntry = NULL THEN E
                   ELSE [E EXCEPT ![nextEntry].Previous = NULL]
              ELSE IF nextEntry = NULL
                   THEN [E EXCEPT ![previousEntry].Next = nextEntry]
                   ELSE [E EXCEPT ![previousEntry].Next = nextEntry,
                                  ![nextEntry].Previous = previousEntry]
        E2 == IF FreeMemory THEN [E1 EXCEPT ![Entry].Used = FALSE] ELSE E1
    IN  [List |-> [RootEntry |-> IF previousEntry = NULL THEN nextEntry
                                 ELSE LS.List.RootEntry,
                   Count |-> LS.List.Count - 1],
         Entry |-> E2,
         NullWrite |-> LS.NullWrite \/ nextEntry = NULL]

\* Entry blocks that are no longer linked are freed or leaked: nothing
\* refers to them again, and the model returns them to the pool. Addresses
\* carry no meaning of their own, so the linked entries are then renamed to
\* 1, 2, ... in list order (one representative per renaming of the heap).
Position(seq, a) == IF a = NULL THEN NULL ELSE CHOOSE i \in 1..Len(seq) : seq[i] = a

Reclaim(LS) ==
    LET linked == ListAddrs(LS)
        Moved(i) == LET e == LS.Entry[linked[i]]
                    IN  [e EXCEPT !.Next = Position(linked, e.Next),
                                  !.Previous = Position(linked, e.Previous)]
    IN  [LS EXCEPT !.List.RootEntry = Position(linked, LS.List.RootEntry),
                   !.Entry = [a \in Addr |-> IF a <= Len(linked) THEN Moved(a) ELSE FreeEntry]]

\* ------------------------------------------------------------------ date.c
NumberOfDaysPerMonth == <<31, 28, 31, 30, 31, 30, 31, 31, 30, 31, 30, 31>>

\* The date the boot loader has left in the BIOS Information Block.
BootDate == [Year |-> 2023, Month |-> 2, Day |-> 28, Hour |-> 22, Minute |-> 40, Second |-> 3]

\* What a read behind the end of NumberOfDaysPerMonth may return: the int
\* that the linker has placed there.
WordsBehindTheArray == {0, 31, 1000}

\* NumberOfDaysPerMonth[Month - 1]
DaysRead(Month, behind) ==
    IF Month - 1 \in 0..11 THEN NumberOfDaysPerMonth[Month] ELSE behind

\* IncrementSystemDate: the four roll-overs, one after the other.
IncrementSystemDate(date, behind) ==
    LET d1 == [date EXCEPT !.Second = @ + 1]
        d2 == IF d1.Second > 59 THEN [d1 EXCEPT !.Second = 0, !.Minute = @ + 1] ELSE d1
        d3 == IF d2.Minute > 59 THEN [d2 EXCEPT !.Minute = 0, !.Hour = @ + 1] ELSE d2
        d4 == IF d3.Hour > 23 THEN [d3 EXCEPT !.Hour = 0, !.Day = @ + 1] ELSE d3
    IN  IF d4.Day > DaysRead(d4.Month, behind)
        THEN [d4 EXCEPT !.Day = 1, !.Month = @ + 1]
        ELSE d4

\* The timer fires every 4 milliseconds.
TicksPerSecond == 250

\* --------------------------------------------------------- multitasking.c
\* The state of the TaskList as list.c sees it.
TaskListState == [List |-> TaskList, Entry |-> entry, NullWrite |-> nullWrite]

\* The Task structures that are linked in the TaskList, head first.
TasksOf(LS) == [i \in 1..Len(ListAddrs(LS)) |-> LS.Entry[ListAddrs(LS)[i]].Payload]

ListTasks == TasksOf(TaskListState)

InList(t) == \E i \in 1..Len(ListTasks) : ListTasks[i] = t

\* The observation window of the fairness property starts anew.
ResetWindow(newTask) ==
    /\ winTicks' = 0
    /\ winBase' = IF observe THEN [t \in 1..Len(newTask) |-> newTask[t].ContextSwitches]
                  ELSE winBase

\* A Task structure as CreateKernelModeTask and ExecuteUserModeProgram fill
\* it; they never write ContextSwitches, which keeps what the heap block held.
NewTask(PID, Ring, cs0) ==
    [PID |-> PID, Status |-> TASK_STATUS_CREATED, ContextSwitches |-> cs0, Ring |-> Ring]

\* CreateKernelModeTask (Ring 0) and the successful ExecuteUserModeProgram
\* (Ring 3): allocate the Task, append it to the TaskList.
CreateTaskIn(S, PID, Ring, cs0) ==
    [LS |-> AddEntryToList(S.LS, Len(S.task) + 1, PID),
     task |-> Append(S.task, NewTask(PID, Ring, cs0))]

\* CreateInitialTasks: tasks 1 and 2 in kernel mode, the shell with PID 4.
\* The heap is zeroed by InitHeap and no block has been used and freed when
\* they are created, so their ContextSwitches start at 0.
CreateInitialTasks ==
    CreateTaskIn(CreateTaskIn(CreateTaskIn([LS |-> NewList, task |-> << >>],
        1, 0, 0), 2, 0, 0), 4, 3, 0)

\* A faulty MoveToNextTask: the old head keeps the state it had.
MoveToNextTaskFrom_KeepsStatus(LS0, tasks, FreeMemory) ==
    LET oldHead == LS0.List.RootEntry
        LS1 == RemoveEntryFromList(LS0, oldHead, FreeMemory)
        LS2 == AddEntryToList(LS1, LS0.Entry[oldHead].Payload, LS0.Entry[oldHead].Key)
        newTask == LS2.Entry[LS2.List.RootEntry].Payload
        task2 == [tasks EXCEPT ![newTask].Status = TASK_STATUS_RUNNING,
                               ![newTask].ContextSwitches = @ + 1]
    IN  [LS |-> Reclaim(LS2), task |-> task2, head |-> newTask]

\* A faulty MoveToNextTask: the old head is put back second in the list
\* instead of last.
MoveToNextTaskFrom_SecondPlace(LS0, tasks, FreeMemory) ==
    LET oldHead == LS0.List.RootEntry
        oldTask == LS0.Entry[oldHead].Payload
        second == LS0.Entry[oldHead].Next
        third == IF second = NULL THEN NULL ELSE LS0.Entry[second].Next
        task1 == [tasks EXCEPT ![oldTask].Status = TASK_STATUS_RUNNABLE]
        E1 == IF second = NULL THEN LS0.Entry
              ELSE [LS0.Entry EXCEPT ![second].Previous = NULL,
                                     ![second].Next = oldHead,
                                     ![oldHead].Previous = second,
                                     ![oldHead].Next = third]
        E2 == IF third = NULL THEN E1 ELSE [E1 EXCEPT ![third].Previous = oldHead]
        LS2 == [LS0 EXCEPT !.List.RootEntry = IF second = NULL THEN oldHead ELSE second,
                           !.Entry = E2]
        newTask == LS2.Entry[LS2.List.RootEntry].Payload
        task2 == [task1 EXCEPT ![newTask].Status = TASK_STATUS_RUNNING,
                               ![newTask].ContextSwitches = @ + 1]
    IN  [LS |-> Reclaim(LS2), task |-> task2, head |-> newTask]

\* MoveToNextTask on a list with a head. FreeMemory is the third argument of
\* RemoveEntryFromList, which the call does not pass.
MoveToNextTaskFrom(LS0, tasks, FreeMemory) ==
    LET oldHead == LS0.List.RootEntry
        oldTask == LS0.Entry[oldHead].Payload
        task1 == [tasks EXCEPT ![oldTask].Status = TASK_STATUS_RUNNABLE]
        LS1 == RemoveEntryFromList(LS0, oldHead, FreeMemory)
        LS2 == AddEntryToList(LS1, LS0.Entry[oldHead].Payload, LS0.Entry[oldHead].Key)
        newTask == LS2.Entry[LS2.List.RootEntry].Payload
        task2 == [task1 EXCEPT ![newTask].Status = TASK_STATUS_RUNNING,
                               ![newTask].ContextSwitches = @ + 1]
    IN  [LS |-> Reclaim(LS2), task |-> task2, head |-> newTask]

\* A faulty MoveToNextTask: rsp0 gets the stack of the task that leaves the CPU.
rsp0_OfOldHead(LS0, r, stacks) == stacks[LS0.Entry[LS0.List.RootEntry].Payload]

\* The value MoveToNextTask stores in tssEntry->rsp0: the KernelModeStack of
\* the task that is the head of the TaskList after the list operations.
rsp0(LS0, r, stacks) == stacks[r.head]

\* MoveToNextTask without the heap; FreeMemories are the values the third
\* parameter of RemoveEntryFromList may hold, which the call does not pass.
MoveToNextTaskWithin(FreeMemories, Ticks) ==
    /\ ~wild
    /\ ~halted
    /\ counter < Ticks
    /\ UNCHANGED <<pfaVars, vmmVars>>
    /\ UNCHANGED <<KernelModeStack, ioVars>>
    /\ IF TaskList.RootEntry = NULL
       THEN \* oldHead->Payload is read from address 0 and written through
            /\ wild' = TRUE
            /\ UNCHANGED <<TaskList, entry, task, counter, systemDate, current, nullWrite,
                           winTicks, winBase, observe, tssEntry>>
       ELSE \E FreeMemory \in FreeMemories :
              LET r == MoveToNextTaskFrom(TaskListState, task, FreeMemory)
              IN  /\ TaskList' = r.LS.List
                  /\ entry' = r.LS.Entry
                  /\ nullWrite' = r.LS.NullWrite
                  /\ task' = r.task
                  /\ current' = r.head
                  /\ tssEntry' = [tssEntry EXCEPT
                                     !.rsp0 = rsp0(TaskListState, r, KernelModeStack)]
                  /\ counter' = counter + 1
                  /\ IF (counter + 1) % TicksPerSecond = 0
                     THEN \E behind \in WordsBehindTheArray :
                            systemDate' = IncrementSystemDate(systemDate, behind)
                     ELSE systemDate' = systemDate
                  /\ winTicks' = IF observe THEN winTicks + 1 ELSE winTicks
                  /\ UNCHANGED <<wild, winBase, observe>>

MoveToNextTaskCall(FreeMemories) == MoveToNextTaskWithin(FreeMemories, MaxTicks)

\* The timer tick where the ListEntries come from the pool of list.c.
MoveToNextTask == MoveToNextTaskCall(BOOLEAN) /\ UNCHANGED heapVars

\* TerminateTask(PID) for a PID that GetEntryFromList finds.
TerminateTaskFrom(LS0, PID, FreeMemory) ==
    Reclaim(RemoveEntryFromList(LS0, GetEntryFromList(LS0, PID), FreeMemory))

TerminateTask(PID) ==
    /\ ~wild
    /\ ~halted
    /\ GetEntryFromList(TaskListState, PID) # NULL
    /\ \E FreeMemory \in BOOLEAN :
         LET LS == TerminateTaskFrom(TaskListState, PID, FreeMemory)
         IN  /\ TaskList' = LS.List
             /\ entry' = LS.Entry
             /\ nullWrite' = LS.NullWrite
    /\ ResetWindow(task)
    /\ UNCHANGED <<task, counter, systemDate, current, wild, observe>>
    /\ UNCHANGED <<heapVars, pfaVars, vmmVars>>

\* SYSCALL_TERMINATE_PROCESS, the only caller of TerminateTask: the task on
\* the CPU, a user mode task (kernel mode tasks raise no system calls), asks
\* for TerminateTask(GetTaskState()->PID). The handler returns to the caller,
\* which stays on the CPU until the next timer tick.
SysCallTerminateProcess ==
    /\ current # NULL
    /\ task[current].Ring = 3
    /\ InList(current)
    /\ TerminateTask(task[current].PID)
    /\ UNCHANGED <<tssVars, ioVars>>

\* An observer starts a new window of consecutive timer ticks.
StartWindow ==
    /\ observe
    /\ winTicks # 0
    /\ ResetWindow(task)
    /\ UNCHANGED <<TaskList, entry, task, counter, systemDate, current, nullWrite, wild, observe>>
    /\ UNCHANGED <<heapVars, pfaVars, vmmVars>>
    /\ UNCHANGED <<tssVars, ioVars>>

SchedInitOn(dates) ==
    /\ TaskList = CreateInitialTasks.LS.List
    /\ entry = CreateInitialTasks.LS.Entry
    /\ task = CreateInitialTasks.task
    /\ winBase = [t \in 1..InitialTasks |-> 0]
    /\ counter = 0
    /\ systemDate \in dates
    /\ current = NULL
    /\ nullWrite = FALSE
    /\ wild = FALSE
    /\ winTicks = 0

SchedInit == SchedInitOn({BootDate})

\* ------------------------------------------------------------------ heap.c
\* Addresses are offsets from the start of the higher half of the address
\* space, 0xFFFF800000000000.
HEAP_START_OFFSET == 5242880
INITIAL_HEAP_SIZE == 4096
HEAP_GROWTH == 4096
HEADER_SIZE == 4

\* The sizes callers ask malloc for. With the header they take 512 and 2556
\* bytes: three small blocks and a large one fill the first page but for
\* four bytes, two large ones do not fit in a page. 505 is a size that is
\* not a multiple of 4.
RequestSizes == {505, 508, 2552}

\* The header at an address; memory that was never written holds zeroes.
HeapBlock(mem, a) == IF a \in DOMAIN mem THEN mem[a] ELSE [InUse |-> 0, Size |-> 0]

StoreBlock(mem, a, h) == [x \in DOMAIN mem \cup {a} |-> IF x = a THEN h ELSE mem[x]]

\* The heap as InitHeap leaves it: one free block.
InitialHeap ==
    [mem |-> StoreBlock(<< >>, HEAP_START_OFFSET, [InUse |-> 0, Size |-> INITIAL_HEAP_SIZE]),
     end |-> HEAP_START_OFFSET + INITIAL_HEAP_SIZE]

NextHeapBlock(mem, Block) == Block + HeapBlock(mem, Block).Size

\* The blocks the walks of Find, Merge and GetLastHeapBlock visit, in order.
RECURSIVE ChainFrom(_, _)
ChainFrom(mem, block) ==
    IF HeapBlock(mem, block).Size > 0
    THEN <<block>> \o ChainFrom(mem, NextHeapBlock(mem, block))
    ELSE << >>

Chain(mem) == ChainFrom(mem, HEAP_START_OFFSET)

RECURSIVE FindFrom(_, _, _)
FindFrom(mem, block, Size) ==
    IF HeapBlock(mem, block).Size > 0
    THEN IF HeapBlock(mem, block).InUse = 0 /\ Size <= HeapBlock(mem, block).Size
         THEN block
         ELSE FindFrom(mem, NextHeapBlock(mem, block), Size)
    ELSE NULL

Find(mem, Size) == FindFrom(mem, HEAP_START_OFFSET, Size)

RECURSIVE LastFrom(_, _)
LastFrom(mem, block) ==
    IF HeapBlock(mem, block).Size > 0 THEN LastFrom(mem, NextHeapBlock(mem, block)) ELSE block

GetLastHeapBlock(mem) == LastFrom(mem, HEAP_START_OFFSET)

\* A faulty Allocate: the rest of a split block gets the size of the block
\* that was split.
Allocate_RestKeepsOldSize(mem, Block, Size) ==
    LET oldSize == HeapBlock(mem, Block).Size
    IN  IF oldSize - Size >= HEADER_SIZE + 1
        THEN StoreBlock(StoreBlock(mem, Block, [InUse |-> 1, Size |-> Size]),
                        Block + Size, [InUse |-> 0, Size |-> oldSize])
        ELSE StoreBlock(mem, Block, [InUse |-> 1, Size |-> oldSize])

Allocate(mem, Block, Size) ==
    LET oldSize == HeapBlock(mem, Block).Size
    IN  IF oldSize - Size >= HEADER_SIZE + 1
        THEN StoreBlock(StoreBlock(mem, Block, [InUse |-> 1, Size |-> Size]),
                        Block + Size, [InUse |-> 0, Size |-> oldSize - Size])
        ELSE StoreBlock(mem, Block, [InUse |-> 1, Size |-> oldSize])

\* Memory without the header at address a.
Forget(mem, a) == [x \in DOMAIN mem \ {a} |-> mem[x]]

\* One pass of Merge; the loop goes on behind the block it has just enlarged.
\* The header of the absorbed block stays in memory as payload of the
\* enlarged block. No walk reads payload, and Allocate writes a header before
\* a walk can reach its address, so the model forgets the stale header.
RECURSIVE MergeFrom(_, _, _)
MergeFrom(mem, block, mergedBlocks) ==
    IF HeapBlock(mem, block).Size > 0
    THEN LET b == HeapBlock(mem, block)
             nextBlock == HeapBlock(mem, NextHeapBlock(mem, block))
         IN  IF b.InUse = 0 /\ nextBlock.InUse = 0
             THEN LET mem1 == StoreBlock(Forget(mem, NextHeapBlock(mem, block)), block,
                                         [b EXCEPT !.Size = b.Size + nextBlock.Size])
                  IN  MergeFrom(mem1, NextHeapBlock(mem1, block), mergedBlocks + 1)
             ELSE MergeFrom(mem, NextHeapBlock(mem, block), mergedBlocks)
    ELSE [mem |-> mem, mergedBlocks |-> mergedBlocks]

Merge(mem) == MergeFrom(mem, HEAP_START_OFFSET, 0)

\* A faulty rounding: a size that is a multiple of 4 is rounded up, too.
RoundUp_AlwaysUp(Size) == ((Size + HEADER_SIZE) \div HEADER_SIZE) * HEADER_SIZE

RoundUp(Size) == ((Size + HEADER_SIZE - 1) \div HEADER_SIZE) * HEADER_SIZE

\* malloc: the heap after the call and the pointer returned.
RECURSIVE malloc(_, _)
malloc(H, Size0) ==
    LET Size == RoundUp(Size0 + HEADER_SIZE)
        block == Find(H.mem, Size)
    IN  IF block # NULL
        THEN [mem |-> Allocate(H.mem, block, Size), end |-> H.end, ptr |-> block + HEADER_SIZE]
        ELSE LET lastBlock == GetLastHeapBlock(H.mem)
                 mem1 == StoreBlock(H.mem, lastBlock, [InUse |-> 0, Size |-> HEAP_GROWTH])
             IN  malloc([mem |-> Merge(mem1).mem, end |-> H.end + HEAP_GROWTH],
                        Size - HEADER_SIZE)

\* A faulty free: one pass of Merge and no more.
free_OnePass(mem, ptr) ==
    LET block == ptr - HEADER_SIZE
    IN  Merge(StoreBlock(mem, block, [HeapBlock(mem, block) EXCEPT !.InUse = 0])).mem

RECURSIVE MergeWhileMoreThanOne(_)
MergeWhileMoreThanOne(mem) ==
    LET r == Merge(mem)
    IN  IF r.mergedBlocks > 1 THEN MergeWhileMoreThanOne(r.mem) ELSE r.mem

free(mem, ptr) ==
    LET block == ptr - HEADER_SIZE
    IN  MergeWhileMoreThanOne(StoreBlock(mem, block, [HeapBlock(mem, block) EXCEPT !.InUse = 0]))

\* No task is inside malloc or free.
NotInHeap == [pc |-> "none"]

\* The blocks of the ListEntries: those linked in the TaskList, head first,
\* and those RemoveEntryFromList has unlinked and not freed.
NoListBlocks == [linked |-> << >>, unlinked |-> {}]

\* The growth a malloc asks for is granted while the heap stays within
\* MaxHeapPages pages.
Malloc ==
    /\ isHeapInitialized = 1
    /\ Cardinality(allocated) < MaxLive
    /\ \E Size \in RequestSizes :
         LET r == malloc([mem |-> heap, end |-> HEAP_END_OFFSET], Size)
         IN  /\ r.end <= HEAP_START_OFFSET + MaxHeapPages * HEAP_GROWTH
             /\ heap' = r.mem
             /\ HEAP_END_OFFSET' = r.end
             /\ allocated' = allocated \cup {r.ptr}
    /\ UNCHANGED <<isHeapInitialized, inHeap, listBlocks>>
    /\ UNCHANGED <<schedVars, pfaVars, vmmVars>>
    /\ UNCHANGED <<tssVars, ioVars>>

\* free of a pointer that malloc returned and that was not freed since.
Free ==
    /\ \E ptr \in allocated :
         /\ heap' = free(heap, ptr)
         /\ allocated' = allocated \ {ptr}
    /\ UNCHANGED <<HEAP_END_OFFSET, isHeapInitialized, inHeap, listBlocks>>
    /\ UNCHANGED <<schedVars, pfaVars, vmmVars>>
    /\ UNCHANGED <<tssVars, ioVars>>

HeapInit ==
    /\ heap = InitialHeap.mem
    /\ HEAP_END_OFFSET = InitialHeap.end
    /\ isHeapInitialized = 1
    /\ allocated = {}
    /\ inHeap = NotInHeap
    /\ listBlocks = NoListBlocks

HeapNext == Malloc \/ Free

\* InitHeap, called by the kernel once the physical memory manager is up.
InitHeap ==
    /\ isHeapInitialized = 0
    /\ heap' = InitialHeap.mem
    /\ HEAP_END_OFFSET' = InitialHeap.end
    /\ isHeapInitialized' = 1
    /\ UNCHANGED <<allocated, inHeap, listBlocks>>
    /\ UNCHANGED <<schedVars, pfaVars, vmmVars>>
    /\ UNCHANGED <<tssVars, ioVars>>

\* ------------------------------------------------------- physical-memory.c
\* The List, ListEntry and PageFrame blocks of the tracked list come from
\* malloc; here they come from the pool of list.c above.
PAGE_SIZE == 4096
BITS_PER_BYTE == 8
MARK_1MB == 1048576
KERNEL_OFFSET == 1048576
DESCRIPTOR_SIZE == 40
NO_PAGE_FRAME == -1

\* The memory maps the BIOS may report: entries below 1 MB, reserved
\* entries, and available regions of 64, 72 and 128 page frames. A region
\* of 72 page frames is one whose size is not a multiple of 64 page frames,
\* as the region at 1 MB of the memory map in the comment of the source
\* (785888 page frames).
MemoryMaps ==
    { << [Start |-> 0, Size |-> 653312, Type |-> 1],
         [Start |-> 653312, Size |-> 2048, Type |-> 2],
         [Start |-> 1048576, Size |-> 64 * 4096, Type |-> 1],
         [Start |-> 2097152, Size |-> 72 * 4096, Type |-> 1] >>,
      << [Start |-> 0, Size |-> 653312, Type |-> 1],
         [Start |-> 1048576, Size |-> 128 * 4096, Type |-> 1],
         [Start |-> 3145728, Size |-> 4096, Type |-> 4],
         [Start |-> 4194304, Size |-> 64 * 4096, Type |-> 1] >>,
      << [Start |-> 0, Size |-> 653312, Type |-> 1],
         [Start |-> 1048576, Size |-> 72 * 4096, Type |-> 1],
         [Start |-> 2097152, Size |-> 64 * 4096, Type |-> 1] >> }

\* The sizes of KERNEL.BIN: 3 and 5 pages when aligned.
KernelSizes == {9000, 20000}

AlignNumber(Number, Alignment) ==
    LET alignedNumber == Number \div Alignment
    IN  IF alignedNumber * Alignment < Number
        THEN (alignedNumber + 1) * Alignment
        ELSE alignedNumber * Alignment

\* The bitmap mask is kept as the set of the bits that are 1.
SetBit(Bit, BitmapMask) == BitmapMask \cup {Bit}
ClearBit(Bit, BitmapMask) == BitmapMask \ {Bit}

\* A faulty search: the first bit of the first 64 bit word that is not full,
\* whether it is set or not.
FirstClearBit_FirstOfWord(descriptor) ==
    LET words == descriptor.BitmapMaskSize \div 8
        open == {i \in 0..(words - 1) : \E j \in 0..63 : (i * 64) + j \notin descriptor.Bitmap}
    IN  IF open = {} THEN NO_PAGE_FRAME
        ELSE (CHOOSE i \in open : \A i2 \in open : i <= i2) * 64

\* The search of AllocatePageFrame in one region: the words i below
\* BitmapMaskSize / 8 that are not all ones, the lowest clear bit j.
FirstClearBit(descriptor) ==
    LET words == descriptor.BitmapMaskSize \div 8
        clear == {frame \in 0..(words * 64 - 1) : frame \notin descriptor.Bitmap}
    IN  IF clear = {} THEN NO_PAGE_FRAME
        ELSE CHOOSE frame \in clear : \A f2 \in clear : frame <= f2

\* The first region k (counted from 1) in which the search succeeds, or 0.
RECURSIVE FirstRegion(_, _)
FirstRegion(regions, k) ==
    IF k > Len(regions) THEN 0
    ELSE IF FirstClearBit(regions[k]) # NO_PAGE_FRAME THEN k
    ELSE FirstRegion(regions, k + 1)

\* AllocatePageFrame up to the call of AddPageFrameToTrackedList.
AllocateIn(P0) ==
    Bind(P0, LAMBDA P :
        LET k == FirstRegion(P.regions, 1)
        IN  IF k = 0
            THEN [P EXCEPT !.pfn = NO_PAGE_FRAME, !.k = 0]
            ELSE LET descriptor == P.regions[k]
                     frame == FirstClearBit(descriptor)
                 IN  [regions |-> [P.regions EXCEPT
                                     ![k].Bitmap = SetBit(frame, @),
                                     ![k].FreePageFrames = @ - 1],
                      bib |-> [P.bib EXCEPT !.AvailablePageFrames = @ - 1],
                      pfn |-> frame + (descriptor.PhysicalMemoryStartAddress \div PAGE_SIZE),
                      k |-> k])

RECURSIVE AllocateTimes(_, _)
AllocateTimes(P, n) ==
    IF n = 0 THEN P
    ELSE Bind(AllocateIn(P), LAMBDA Q : AllocateTimes(Q, n - 1))

RECURSIVE SumSeq(_)
SumSeq(numbers) == IF numbers = << >> THEN 0 ELSE Head(numbers) + SumSeq(Tail(numbers))

IsManaged(region) == region.Type = 1 /\ region.Start >= MARK_1MB

GetUsedPageFrames(regions) ==
    LET lastMemoryRegion == regions[Len(regions)]
        lastUsedMemoryAddress ==
            lastMemoryRegion.BitmapMaskStartAddress + lastMemoryRegion.BitmapMaskSize
    IN  (lastUsedMemoryAddress - KERNEL_OFFSET) \div PAGE_SIZE + 1

\* InitPhysicalMemoryManager: a descriptor with an empty bitmap mask for
\* every available region at or above 1 MB, then the frames of the kernel
\* and of the descriptors are allocated, untracked.
InitPhysicalMemoryManager(map, KernelSize) ==
    LET available == SelectSeq(map, LAMBDA region : region.Type = 1)
        managed == SelectSeq(map, IsManaged)
        startAddress == KERNEL_OFFSET + AlignNumber(KernelSize, PAGE_SIZE)
        Descriptor(i) ==
            [PhysicalMemoryStartAddress |-> managed[i].Start,
             AvailablePageFrames |-> managed[i].Size \div PAGE_SIZE,
             BitmapMaskStartAddress |-> 0,
             BitmapMaskSize |-> (managed[i].Size \div PAGE_SIZE) \div BITS_PER_BYTE,
             FreePageFrames |-> managed[i].Size \div PAGE_SIZE,
             Bitmap |-> {}]
        descriptors == [i \in 1..Len(managed) |-> Descriptor(i)]
        bitmapMaskStartAddress == Len(managed) * DESCRIPTOR_SIZE + startAddress + 8
        regions == [i \in 1..Len(managed) |->
                      [descriptors[i] EXCEPT !.BitmapMaskStartAddress =
                          bitmapMaskStartAddress
                            + SumSeq([j \in 1..(i - 1) |-> descriptors[j].BitmapMaskSize])]]
    IN  AllocateTimes([regions |-> regions,
                       bib |-> [MaxMemory |->
                                    SumSeq([i \in 1..Len(available) |-> available[i].Size]),
                                AvailablePageFrames |->
                                    SumSeq([i \in 1..Len(available) |->
                                              available[i].Size \div PAGE_SIZE])],
                       pfn |-> NO_PAGE_FRAME,
                       k |-> 0],
                      GetUsedPageFrames(regions))

\* AllocatePageFrame with AddPageFrameToTrackedList. Once the heap is
\* initialised every frame is tracked; the tracked list is kept to
\* MaxTracked entries.
AllocatePageFrame ==
    LET r == AllocateIn([regions |-> memLayout, bib |-> bib, pfn |-> pfn, k |-> 0])
        list == IF TrackedPageFrames = NULL THEN NewList ELSE tracked
        pageFrame == [PageFrameNumber |-> r.pfn, MemoryRegionIndex |-> r.k - 1]
    IN  /\ ~wild
        /\ isHeapInitialized = 1 => tracked.List.Count < MaxTracked
        /\ memLayout' = r.regions
        /\ bib' = r.bib
        /\ pfn' = r.pfn
        /\ IF r.pfn # NO_PAGE_FRAME /\ isHeapInitialized = 1
           THEN /\ TrackedPageFrames' = 1
                /\ tracked' = Reclaim(AddEntryToList(list, pageFrame, r.pfn))
           ELSE UNCHANGED <<TrackedPageFrames, tracked>>
        /\ UNCHANGED <<schedVars, heapVars, vmmVars>>
        /\ UNCHANGED <<tssVars, ioVars>>

\* The page frames that were released so far: no counter of the kernel holds
\* this number, it is what the descriptors have lost track of.
Released ==
    SumSeq([k \in 1..Len(memLayout) |->
              memLayout[k].AvailablePageFrames - memLayout[k].FreePageFrames
                - Cardinality(memLayout[k].Bitmap)])

\* The 8 byte words at the addresses 0 and 8 of the identity mapped first
\* page, where the BIOS keeps its interrupt vectors: zero, or a value that
\* is not a null pointer (1 stands for any such value).
LowMemoryWords == {0, 1}

\* The page frame numbers ReleasePageFrame is called with: those in the
\* tracked list, the one the last allocation returned (not tracked when the
\* heap did not exist, or released already), the first page frame of the
\* kernel (never tracked) and the last one of the memory (never allocated).
ReleaseRequests ==
    LET last == memLayout[Len(memLayout)]
    IN  {tracked.Entry[a].Key : a \in {b \in Addr : tracked.Entry[b].Used}}
          \cup {pfn, KERNEL_OFFSET \div PAGE_SIZE,
                (last.PhysicalMemoryStartAddress \div PAGE_SIZE) + last.AvailablePageFrames - 1}

\* ReleasePageFrame. The entry that GetEntryFromList returns is not tested:
\* frame is read from entry->Payload, for an entry of 0x0 from address 0
\* (and with TrackedPageFrames = 0x0 the walk starts at the pointer read
\* from address 8). Where such a word is not zero the kernel follows it.
\* The model follows MaxReleases releases of tracked page frames.
ReleasePageFrame ==
    /\ ~wild
    /\ \E PageFrameNumber \in ReleaseRequests :
         LET e == IF TrackedPageFrames = NULL THEN NULL
                  ELSE GetEntryFromList(tracked, PageFrameNumber)
         IN  IF e # NULL
             THEN LET frame == tracked.Entry[e].Payload
                      k == frame.MemoryRegionIndex + 1
                      descriptor == memLayout[k]
                      bit == PageFrameNumber
                               - (descriptor.PhysicalMemoryStartAddress \div PAGE_SIZE)
                  IN  /\ Released < MaxReleases
                      /\ memLayout' = [memLayout EXCEPT ![k].Bitmap = ClearBit(bit, @)]
                      /\ tracked' = Reclaim(RemoveEntryFromList(tracked, e, TRUE))
                      /\ wild' = wild
             ELSE \E RootEntry \in LowMemoryWords, Payload \in LowMemoryWords :
                    /\ wild' = (Payload # 0 \/ (TrackedPageFrames = NULL /\ RootEntry # 0))
                    /\ UNCHANGED <<memLayout, tracked>>
    /\ UNCHANGED <<bib, TrackedPageFrames, pfn>>
    /\ UNCHANGED <<TaskList, entry, task, counter, systemDate, current, nullWrite,
                   observe, winTicks, winBase>>
    /\ UNCHANGED <<heapVars, vmmVars>>
    /\ UNCHANGED <<tssVars, ioVars>>

\* The physical memory manager after InitPhysicalMemoryManager.
PfaInitWith(map, KernelSize) ==
    LET P == InitPhysicalMemoryManager(map, KernelSize)
    IN  /\ memLayout = P.regions
        /\ bib = P.bib
        /\ pfn = P.pfn
        /\ TrackedPageFrames = NULL
        /\ tracked = NewList

PfaInit == \E map \in MemoryMaps : \E KernelSize \in KernelSizes : PfaInitWith(map, KernelSize)

\* Before InitHeap and CreateInitialTasks.
HeapNotInitialized ==
    /\ heap = << >>
    /\ HEAP_END_OFFSET = HEAP_START_OFFSET
    /\ isHeapInitialized = 0
    /\ allocated = {}
    /\ inHeap = NotInHeap
    /\ listBlocks = NoListBlocks

SchedNotStarted ==
    /\ TaskList = NewList.List
    /\ entry = NewList.Entry
    /\ task = << >>
    /\ winBase = << >>
    /\ counter = 0
    /\ systemDate = BootDate
    /\ current = NULL
    /\ nullWrite = FALSE
    /\ wild = FALSE
    /\ winTicks = 0
    /\ observe = FALSE

PfaNext == AllocatePageFrame \/ ReleasePageFrame \/ InitHeap

\* -------------------------------------------------------- virtual-memory.c
SMALL_PAGE_SIZE == 4096
PT_ENTRIES == 512

\* A virtual address is kept as the 36 bits of its page number (bits 12 to
\* 47 of the address), in two halves of 18 bits: hi holds the bits 30-47
\* (the PML4 and PDP indexes), lo the bits 12-29 (the PD and PT indexes).
\* All addresses of the model are canonical.
HALF == 262144

VirtualAddress(hi, lo) == [hi |-> hi % HALF, lo |-> lo % HALF]

\* The index macros: 9 bits of the address from bit 39, 30, 21 and 12.
PML4_INDEX(V) == (V.hi \div PT_ENTRIES) % PT_ENTRIES
PDP_INDEX(V) == V.hi % PT_ENTRIES
PD_INDEX(V) == (V.lo \div PT_ENTRIES) % PT_ENTRIES
PT_INDEX(V) == V.lo % PT_ENTRIES

\* The table macros of the recursive page table mapping.
\* PML4_TABLE is 0xFFFFFFFFFFFFF000.
PML4_TABLE == VirtualAddress(HALF - 1, HALF - 1)
\* 0xFFFFFFFFFFE00000 + ((V >> 27) & 0x00001FF000)
PDP_TABLE(V) == VirtualAddress(HALF - 1, (HALF - PT_ENTRIES) + (V.hi \div PT_ENTRIES))
\* 0xFFFFFFFFC0000000 + ((V >> 18) & 0x003FFFF000)
PD_TABLE(V) == VirtualAddress(HALF - 1, V.hi)
\* 0xFFFFFF8000000000 + ((V >> 9) & 0x7FFFFFF000)
PT_TABLE(V) ==
    VirtualAddress((HALF - PT_ENTRIES) + (V.hi \div PT_ENTRIES),
                   (V.hi % PT_ENTRIES) * PT_ENTRIES + (V.lo \div PT_ENTRIES))

\* The virtual address with the value of a physical address below 1 GB.
AddressOf(PhysicalAddress) == VirtualAddress(0, PhysicalAddress \div SMALL_PAGE_SIZE)

\* The addresses the kernel and the programs use.
\* 0xFFFF800000500000, the start of the heap
HeapStartAddress == VirtualAddress(131072, HEAP_START_OFFSET \div SMALL_PAGE_SIZE)
\* 0x0000700000000000
EXECUTABLE_BASE_ADDRESS == VirtualAddress(114688, 0)
\* 0x00007FFFF0000000 - 64
UserModeStackPtr == VirtualAddress(131071, 196607)
\* 0xFFFF800001400000 - 64
KernelModeStackPtr == VirtualAddress(131072, 5119)
\* 0xFFFF8FFFFF201000 (TestVirtualMemoryManager)
KernelTestAddress3 == VirtualAddress(147455, 258561)
\* 0xFFFF800000100000, where the code of the kernel starts
KernelCodeAddress == VirtualAddress(131072, KERNEL_OFFSET \div SMALL_PAGE_SIZE)

\* 0xFFFF800001400000, the KernelModeStack of every user mode task
EXECUTABLE_KERNELMODE_STACK == VirtualAddress(131072, 5120)
\* 0xFFFF800001100000 and 0xFFFF800001200000, the stacks CreateInitialTasks
\* gives KeyboardHandlerTask and StartUserModeTask
KernelTaskStacks == <<VirtualAddress(131072, 4352), VirtualAddress(131072, 4608)>>

\* The upper half of the address space: bit 47 of the address is set.
InHigherHalf(V) == V.hi >= HALF \div 2

\* The macro TEMPORARY_VIRTUAL_PAGE: an address of the kernel half that no
\* other code touches, 0xFFFF8000FFFFF000 or 0xFFFF900000000000.
TemporaryPages == {VirtualAddress(131075, HALF - 1), VirtualAddress(147456, 0)}

\* A page table entry: the fields the kernel writes. Frame is a field of 36
\* bits, kept here as a signed number: the page frame numbers of the model
\* are below 2^35 and stay as they are, and the -1 of AllocatePageFrame,
\* cut to 36 bits, is the field with all bits set, which reads -1.
FrameField(PageFrameNumber) == PageFrameNumber

ZeroEntry == [Present |-> 0, ReadWrite |-> 0, User |-> 0, Frame |-> 0]

PresentEntry(PageFrameNumber) ==
    [Present |-> 1, ReadWrite |-> 1, User |-> 1, Frame |-> FrameField(PageFrameNumber)]

\* The page table that maps the first 2 MB: entry i holds page frame i.
First2MB == [i \in 0..(PT_ENTRIES - 1) |-> PresentEntry(i)]

\* The physical memory that holds page tables: mem.tables[f] is the content
\* of page frame f as a table, with the entries that are not zero;
\* mem.first2MB holds the page frames whose content is the table First2MB.
NoTables == [tables |-> << >>, first2MB |-> {}]

TableAt(mem, f) ==
    IF f \in mem.first2MB THEN First2MB
    ELSE IF f \in DOMAIN mem.tables THEN mem.tables[f] ELSE << >>

EntryAt(mem, f, i) ==
    IF f \in mem.first2MB THEN PresentEntry(i)
    ELSE IF f \in DOMAIN mem.tables /\ i \in DOMAIN mem.tables[f] THEN mem.tables[f][i]
    ELSE ZeroEntry

StoreTable(mem, f, table) ==
    IF table = First2MB
    THEN [tables |-> [g \in DOMAIN mem.tables \ {f} |-> mem.tables[g]],
          first2MB |-> mem.first2MB \cup {f}]
    ELSE [tables |-> [g \in DOMAIN mem.tables \cup {f} |->
                        IF g = f THEN table ELSE mem.tables[g]],
          first2MB |-> mem.first2MB \ {f}]

StoreEntry(mem, f, i, e) ==
    LET old == TableAt(mem, f)
        written == IF e = ZeroEntry THEN DOMAIN old \ {i} ELSE DOMAIN old \cup {i}
    IN  StoreTable(mem, f, [j \in written |-> IF j = i THEN e ELSE old[j]])

\* The walk of the MMU from the PML4 in page frame root: the four entries of
\* the path of V; behind an entry that is not present the walk has nothing.
NextEntry(mem, e0, i) ==
    Bind(e0, LAMBDA e : IF e.Present = 1 THEN EntryAt(mem, e.Frame, i) ELSE ZeroEntry)

PathOf(mem, root, V) ==
    Bind(EntryAt(mem, root, PML4_INDEX(V)), LAMBDA e4 :
    Bind(NextEntry(mem, e4, PDP_INDEX(V)), LAMBDA e3 :
    Bind(NextEntry(mem, e3, PD_INDEX(V)), LAMBDA e2 :
        <<e4, e3, e2, NextEntry(mem, e2, PT_INDEX(V))>>)))

IsMapped(mem, root, V) ==
    \E path \in {PathOf(mem, root, V)} : \A l \in 1..4 : path[l].Present = 1

\* The page frame V is mapped to.
FrameOf(mem, root, V) == PathOf(mem, root, V)[4].Frame

\* The machine as the operations of the virtual memory manager see it: the
\* state of the physical memory manager (regions, bib, pfn), the page
\* tables (mem), the global pml4Address, the registers at the last page
\* fault (cr2, cr3 as a page frame number) and how the operation goes on:
\* lost when AllocatePageFrame has returned -1 and the tables lead outside
\* the physical memory, loop when an instruction faults again after
\* HandlePageFault has returned.
\* AddPageFrameToTrackedList is left out: the operations below never read
\* the list of tracked page frames.
Machine(P0) ==
    Bind(P0, LAMBDA P :
        [regions |-> P.regions, bib |-> P.bib, pfn |-> P.pfn,
         mem |-> NoTables, pml4Address |-> 0, cr2 |-> VirtualAddress(0, 0), cr3 |-> 0,
         lost |-> FALSE, loop |-> FALSE, clone |-> 0])

Stopped(M) == M.lost \/ M.loop

VmAllocate(M0) ==
    Bind(M0, LAMBDA M :
    Bind(AllocateIn([regions |-> M.regions, bib |-> M.bib, pfn |-> M.pfn, k |-> 0]),
         LAMBDA r : [M EXCEPT !.regions = r.regions, !.bib = r.bib, !.pfn = r.pfn,
                              !.lost = (r.pfn = NO_PAGE_FRAME)]))

\* One level of HandlePageFault: the entry Index of the table at the virtual
\* address Table gets a new page frame if it is not present. The value that
\* AllocatePageFrame returns is not tested.
InstallIfMissing(M0, root, Table, Index) ==
    Bind(M0, LAMBDA M :
        IF Stopped(M) THEN M
        ELSE IF ~IsMapped(M.mem, root, Table) THEN [M EXCEPT !.lost = TRUE]
        ELSE Bind(FrameOf(M.mem, root, Table), LAMBDA T :
                 IF EntryAt(M.mem, T, Index).Present = 0
                 THEN Bind(VmAllocate(M), LAMBDA A :
                          [A EXCEPT !.mem = StoreEntry(A.mem, T, Index, PresentEntry(A.pfn))])
                 ELSE M))

\* The PT level of MapVirtualAddressToPhysicalAddress.
InstallFrame(M0, root, Table, Index, PhysicalAddress) ==
    Bind(M0, LAMBDA M :
        IF Stopped(M) THEN M
        ELSE IF ~IsMapped(M.mem, root, Table) THEN [M EXCEPT !.lost = TRUE]
        ELSE Bind(FrameOf(M.mem, root, Table), LAMBDA T :
                 IF EntryAt(M.mem, T, Index).Present = 0
                 THEN [M EXCEPT !.mem = StoreEntry(M.mem, T, Index,
                                           PresentEntry(PhysicalAddress \div SMALL_PAGE_SIZE))]
                 ELSE M))

\* The three upper levels, the same in both functions.
InstallTables(M, root, V) ==
    InstallIfMissing(
        InstallIfMissing(
            InstallIfMissing(M, root, PML4_TABLE, PML4_INDEX(V)),
            root, PDP_TABLE(V), PDP_INDEX(V)),
        root, PD_TABLE(V), PD_INDEX(V))

\* HandlePageFault(V) while CR3 holds the PML4 in page frame root.
HandlePageFault(M, root, V) ==
    InstallIfMissing(InstallTables(M, root, V), root, PT_TABLE(V), PT_INDEX(V))

MapVirtualAddressToPhysicalAddress(M, root, V, PhysicalAddress) ==
    InstallFrame(InstallTables(M, root, V), root, PT_TABLE(V), PT_INDEX(V), PhysicalAddress)

UnmapVirtualAddress(M0, root, V) ==
    Bind(M0, LAMBDA M :
        IF Stopped(M) THEN M
        ELSE IF ~IsMapped(M.mem, root, PT_TABLE(V)) THEN [M EXCEPT !.lost = TRUE]
        ELSE Bind(FrameOf(M.mem, root, PT_TABLE(V)), LAMBDA T :
                 IF EntryAt(M.mem, T, PT_INDEX(V)).Present = 1
                 THEN [M EXCEPT !.mem = StoreEntry(M.mem, T, PT_INDEX(V), ZeroEntry)]
                 ELSE M))

\* An instruction of the kernel reads or writes V: if V is not mapped the
\* page fault is handled (IsrHandler) and the instruction starts again.
Touch(M0, root, V) ==
    Bind(M0, LAMBDA M :
        IF Stopped(M) \/ IsMapped(M.mem, root, V) THEN M
        ELSE Bind([HandlePageFault(M, root, V) EXCEPT !.cr2 = V, !.cr3 = root], LAMBDA H :
                 IF Stopped(H) \/ IsMapped(H.mem, root, V) THEN H
                 ELSE [H EXCEPT !.loop = TRUE]))

\* ClonePML4Table while CR3 holds the PML4 in page frame root. The clone is
\* written through the temporary page; its entry 511 is written through
\* the pointer pml4Clone, which holds the physical address of the clone.
ClonePML4Table(M0, root, Temporary) ==
    Bind(VmAllocate(M0), LAMBDA A :
    Bind(MapVirtualAddressToPhysicalAddress(A, root, Temporary, A.pfn * SMALL_PAGE_SIZE),
         LAMBDA B :
    Bind(IF Stopped(B) THEN B
         ELSE [B EXCEPT !.mem = StoreTable(B.mem, FrameOf(B.mem, root, Temporary),
                                   TableAt(B.mem, FrameOf(B.mem, root, PML4_TABLE)))],
         LAMBDA C :
    Bind(Touch(C, root, AddressOf(A.pfn * SMALL_PAGE_SIZE)), LAMBDA D :
    Bind(IF Stopped(D) THEN D
         ELSE Bind(FrameOf(D.mem, root, AddressOf(A.pfn * SMALL_PAGE_SIZE)), LAMBDA T :
                  [D EXCEPT !.mem = StoreEntry(D.mem, T, PT_ENTRIES - 1,
                                        [EntryAt(D.mem, T, PT_ENTRIES - 1) EXCEPT
                                           !.Frame = FrameField(A.pfn)])]),
         LAMBDA E :
        [UnmapVirtualAddress(E, root, Temporary) EXCEPT
           !.clone = A.pfn * SMALL_PAGE_SIZE])))))

\* No call of MapVirtualAddressToPhysicalAddress has returned yet.
NoMapCall == [v |-> VirtualAddress(0, 0), p |-> 0, returned |-> FALSE, entry |-> ZeroEntry]

\* The call of MapVirtualAddressToPhysicalAddress in ClonePML4Table: its
\* arguments and the page table entry of TEMPORARY_VIRTUAL_PAGE at its
\* return.
MapCallOf(M0, root, Temporary, before) ==
    Bind(VmAllocate(M0), LAMBDA A :
    Bind(MapVirtualAddressToPhysicalAddress(A, root, Temporary, A.pfn * SMALL_PAGE_SIZE),
         LAMBDA B :
        IF Stopped(B) THEN before
        ELSE [v |-> Temporary, p |-> A.pfn * SMALL_PAGE_SIZE, returned |-> TRUE,
              entry |-> PathOf(B.mem, root, Temporary)[4]]))

\* A faulty LoadProgramIntoUserModeVirtualAddressSpace: the program is
\* loaded without the switch to the new address space.
LoadProgramIntoUserModeVirtualAddressSpace_NoSwitch(M0, UserModePML4Table) ==
    Bind(M0, LAMBDA M :
    Bind(M.pml4Address \div SMALL_PAGE_SIZE, LAMBDA root :
        Touch(Touch(Touch(M, root, EXECUTABLE_BASE_ADDRESS), root, KernelModeStackPtr),
              root, UserModeStackPtr)))

\* LoadProgramIntoUserModeVirtualAddressSpace for a file that LoadProgram
\* finds: with CR3 switched to the new PML4 the program is read to
\* EXECUTABLE_BASE_ADDRESS (one page) and both stacks are touched.
LoadProgramIntoUserModeVirtualAddressSpace(M, UserModePML4Table) ==
    Bind(UserModePML4Table \div SMALL_PAGE_SIZE, LAMBDA root :
        Touch(Touch(Touch(M, root, EXECUTABLE_BASE_ADDRESS), root, KernelModeStackPtr),
              root, UserModeStackPtr))

\* The first two statements of ExecuteUserModeProgram, which runs at boot
\* and in the kernel mode task StartUserModeTask: CR3 holds pml4Address.
CloneAndLoad(M0, Temporary) ==
    Bind(M0, LAMBDA M :
    Bind(ClonePML4Table(M, M.pml4Address \div SMALL_PAGE_SIZE, Temporary), LAMBDA C :
        LoadProgramIntoUserModeVirtualAddressSpace(C, C.clone)))

\* InitVirtualMemoryManager: seven page frames, which lie in the first 2 MB
\* that the boot loader has identity mapped, become the tables that map the
\* first 2 MB at 0 and at 0xFFFF800000000000.
InitVirtualMemoryManager(P) ==
    Bind(VmAllocate(Machine(P)), LAMBDA A1 :
    Bind(VmAllocate(A1), LAMBDA A2 :
    Bind(VmAllocate(A2), LAMBDA A3 :
    Bind(VmAllocate(A3), LAMBDA A4 :
    Bind(VmAllocate(A4), LAMBDA A5 :
    Bind(VmAllocate(A5), LAMBDA A6 :
    Bind(VmAllocate(A6), LAMBDA A7 :
        LET pml4 == A1.pfn
            pdpHigherHalfKernel == A2.pfn
            pdHigherHalfKernel == A3.pfn
            pt1HigherHalfKernel == A4.pfn
            pdpIdentityMapped == A5.pfn
            pdIdentityMapped == A6.pfn
            ptIdentityMapped == A7.pfn
            pml4Table == [i \in {0, 256, 511} |->
                            PresentEntry(CASE i = 0 -> pdpIdentityMapped
                                           [] i = 256 -> pdpHigherHalfKernel
                                           [] i = 511 -> pml4)]
            tables == {<<pml4, pml4Table>>,
                       <<pdpIdentityMapped, [i \in {0} |-> PresentEntry(pdIdentityMapped)]>>,
                       <<pdIdentityMapped, [i \in {0} |-> PresentEntry(ptIdentityMapped)]>>,
                       <<pdpHigherHalfKernel, [i \in {0} |-> PresentEntry(pdHigherHalfKernel)]>>,
                       <<pdHigherHalfKernel, [i \in {0} |-> PresentEntry(pt1HigherHalfKernel)]>>}
        IN  [A7 EXCEPT !.mem = [tables |-> [f \in {t[1] : t \in tables} |->
                                              (CHOOSE t \in tables : t[1] = f)[2]],
                                first2MB |-> {ptIdentityMapped, pt1HigherHalfKernel}],
                       !.pml4Address = pml4 * SMALL_PAGE_SIZE,
                       !.cr3 = pml4])))))))

\* The machine in the variables of the model.
CurrentMachine ==
    [regions |-> memLayout, bib |-> bib, pfn |-> pfn, mem |-> pageTables,
     pml4Address |-> pml4Address, cr2 |-> cr2, cr3 |-> cr3,
     lost |-> FALSE, loop |-> FALSE, clone |-> 0]

\* StartUserModeTask calls ExecuteUserModeProgram(str, 10) for every program
\* the shell asks for; the case in which LoadProgram finds the file. The
\* address space is cloned and the program loaded, then the Task is created
\* and appended. If the load never returns (the instruction that writes the
\* program faults again and again) no Task is created and the task that
\* loads programs makes no progress any more.
ExecuteUserModeProgramCall ==
    /\ ~wild
    /\ ~halted
    /\ ~lost
    /\ ~faultLoop
    /\ Len(task) < InitialTasks + MaxPrograms
    /\ HasFreeEntry(entry)
    /\ \E M \in {CloneAndLoad(CurrentMachine, TEMPORARY_VIRTUAL_PAGE)} :
           /\ memLayout' = M.regions
           /\ bib' = M.bib
           /\ pfn' = M.pfn
           /\ pageTables' = M.mem
           /\ cr2' = M.cr2
           /\ cr3' = M.cr3
           /\ faultLoop' = M.loop
           /\ lost' = M.lost
           /\ mapCall' = MapCallOf(CurrentMachine, pml4Address \div SMALL_PAGE_SIZE,
                                   TEMPORARY_VIRTUAL_PAGE, mapCall)
           /\ IF Stopped(M)
              THEN UNCHANGED <<task, TaskList, entry, CR3, KernelModeStack, winTicks, winBase>>
              ELSE \E cs0 \in UninitValues :
                     LET S == CreateTaskIn([LS |-> TaskListState, task |-> task],
                                           USER_PID, 3, cs0)
                     IN  /\ task' = S.task
                         /\ TaskList' = S.LS.List
                         /\ entry' = S.LS.Entry
                         /\ CR3' = Append(CR3, M.clone)
                         /\ KernelModeStack' =
                                Append(KernelModeStack, EXECUTABLE_KERNELMODE_STACK)
                         /\ ResetWindow(task')
    /\ UNCHANGED <<counter, systemDate, current, nullWrite, wild, observe>>
    /\ UNCHANGED <<TrackedPageFrames, tracked>>
    /\ UNCHANGED <<pml4Address, TEMPORARY_VIRTUAL_PAGE, pageFaults, halted, userWrites>>
    /\ UNCHANGED heapVars
    /\ UNCHANGED tssEntry

\* ExecuteUserModeProgram where the file system and the system calls are
\* not followed.
ExecuteUserModeProgram == ExecuteUserModeProgramCall /\ UNCHANGED ioVars

SchedNext ==
    \/ ExecuteUserModeProgram
    \/ MoveToNextTask
    \/ SysCallTerminateProcess

\* The addresses at which the tasks take page faults: an address of the
\* kernel half at any time, the second page of a program while it runs.
FaultAddresses == {KernelTestAddress3, VirtualAddress(EXECUTABLE_BASE_ADDRESS.hi, 1)}

\* IsrHandler for EXCEPTION_PAGE_FAULT: a task touches an address that is
\* not mapped in its address space, HandlePageFault(cr2) runs and the task
\* goes on. The model follows MaxFaults page faults.
IsrHandlerPageFaultAt(Addresses) ==
    /\ ~wild
    /\ ~halted
    /\ ~lost
    /\ pageFaults < MaxFaults
    /\ \E t \in 1..Len(task), V \in Addresses :
         LET root == CR3[t] \div SMALL_PAGE_SIZE
         IN  /\ InList(t)
             /\ task[t].Ring = 0 => InHigherHalf(V)
             /\ ~IsMapped(pageTables, root, V)
             /\ \E H \in {HandlePageFault(CurrentMachine, root, V)} :
                    /\ memLayout' = H.regions
                    /\ bib' = H.bib
                    /\ pfn' = H.pfn
                    /\ pageTables' = H.mem
                    /\ lost' = H.lost
             /\ cr2' = V
             /\ cr3' = root
    /\ pageFaults' = pageFaults + 1
    /\ UNCHANGED schedVars
    /\ UNCHANGED <<TrackedPageFrames, tracked>>
    /\ UNCHANGED <<pml4Address, CR3, TEMPORARY_VIRTUAL_PAGE, faultLoop, halted, userWrites,
                   mapCall>>
    /\ UNCHANGED heapVars
    /\ UNCHANGED <<tssVars, ioVars>>

IsrHandlerPageFault == IsrHandlerPageFaultAt(FaultAddresses)

\* IsrHandler for every other exception, raised by the task on the CPU when
\* it runs in ring 3 (a general protection fault for an outb): the
\* exception is displayed and the handler never returns. The gate of the
\* exception is an interrupt gate, so no timer interrupt is taken any more.
IsrHandlerHalt ==
    /\ ~wild
    /\ ~halted
    /\ ~lost
    /\ current # NULL
    /\ task[current].Ring = 3
    /\ InList(current)
    /\ halted' = TRUE
    /\ UNCHANGED <<schedVars, heapVars, pfaVars>>
    /\ UNCHANGED <<tssVars, ioVars>>
    /\ UNCHANGED <<pageTables, pml4Address, CR3, TEMPORARY_VIRTUAL_PAGE, cr2, cr3,
                   pageFaults, faultLoop, lost, userWrites, mapCall>>

\* The addresses programs store to.
UserWriteAddresses == {KernelCodeAddress, EXECUTABLE_BASE_ADDRESS}

\* The MMU lets code of ring 3 write V: every entry of the path is present,
\* writable and a user entry.
UserMayWrite(mem, root, V) ==
    \E path \in {PathOf(mem, root, V)} :
        \A l \in 1..4 :
            /\ path[l].Present = 1
            /\ path[l].ReadWrite = 1
            /\ path[l].User = 1

\* A store of the program on the CPU (ring 3) that the MMU lets through.
UserModeWrite ==
    /\ ~wild
    /\ ~halted
    /\ ~lost
    /\ current # NULL
    /\ task[current].Ring = 3
    /\ InList(current)
    /\ \E V \in UserWriteAddresses :
         /\ UserMayWrite(pageTables, CR3[current] \div SMALL_PAGE_SIZE, V)
         /\ userWrites' = userWrites \cup {V}
    /\ UNCHANGED <<schedVars, heapVars, pfaVars>>
    /\ UNCHANGED <<tssVars, ioVars>>
    /\ UNCHANGED <<pageTables, pml4Address, CR3, TEMPORARY_VIRTUAL_PAGE, cr2, cr3,
                   pageFaults, faultLoop, lost, halted, mapCall>>

\* The kernel up to the end of CreateInitialTasks: InitPhysicalMemoryManager,
\* InitVirtualMemoryManager, InitHeap (its memset takes the first page
\* fault) and ExecuteUserModeProgram for the shell.
Boot(map, KernelSize, Temporary) ==
    Bind(InitVirtualMemoryManager(InitPhysicalMemoryManager(map, KernelSize)), LAMBDA V :
        CloneAndLoad(Touch(V, V.pml4Address \div SMALL_PAGE_SIZE, HeapStartAddress),
                     Temporary))

MachineBooted(map, KernelSize, Temporary) ==
    \E B \in {Boot(map, KernelSize, Temporary)} :
        /\ ~Stopped(B)
        /\ memLayout = B.regions
        /\ bib = B.bib
        /\ pfn = B.pfn
        /\ TrackedPageFrames = NULL
        /\ tracked = NewList
        /\ pageTables = B.mem
        /\ pml4Address = B.pml4Address
        /\ CR3 = <<B.pml4Address, B.pml4Address, B.clone>>
        /\ TEMPORARY_VIRTUAL_PAGE = Temporary
        /\ cr2 = B.cr2
        /\ cr3 = B.cr3
        /\ pageFaults = 0
        /\ faultLoop = FALSE
        /\ lost = FALSE
        /\ halted = FALSE
        /\ userWrites = {}
        /\ mapCall = Bind(InitVirtualMemoryManager(InitPhysicalMemoryManager(map, KernelSize)),
                          LAMBDA V :
                              MapCallOf(Touch(V, V.pml4Address \div SMALL_PAGE_SIZE,
                                              HeapStartAddress),
                                        V.pml4Address \div SMALL_PAGE_SIZE, Temporary, NoMapCall))

\* One machine, for the specifications that are not about page frames.
PfaBooted ==
    MachineBooted(CHOOSE map \in MemoryMaps : Len(map) = 4 /\ map[2].Type = 2, 9000,
                  VirtualAddress(131075, HALF - 1))

\* Before InitVirtualMemoryManager: the page tables are those of the boot
\* loader, which the kernel never changes.
VmmNotInitialized ==
    /\ pageTables = NoTables
    /\ pml4Address = 0
    /\ CR3 = << >>
    /\ TEMPORARY_VIRTUAL_PAGE \in TemporaryPages
    /\ cr2 = VirtualAddress(0, 0)
    /\ cr3 = 0
    /\ pageFaults = 0
    /\ faultLoop = FALSE
    /\ lost = FALSE
    /\ halted = FALSE
    /\ userWrites = {}
    /\ mapCall = NoMapCall

\* The machines of the specification of the virtual memory manager. The
\* memory map and the size of the kernel decide how many page frames are
\* left below 2 MB after boot: four on the first machine, which has a
\* second region at 2 MB, and two on the machine with the small memory.
SmallMemoryMap ==
    << [Start |-> 0, Size |-> 653312, Type |-> 1],
       [Start |-> 1048576, Size |-> 64 * 4096, Type |-> 1] >>

\* ----------------------------------------------------------------- common.c
\* A string is the sequence of its characters, without the terminating 0.
CharAt(string, i) == IF i < Len(string) THEN string[i + 1] ELSE 0

\* strcmp as common.c has it: the walk stops at the end of s1, at the first
\* difference, or after strlen(s2) characters.
RECURSIVE StrcmpFrom(_, _, _)
StrcmpFrom(s1, s2, i) ==
    IF CharAt(s1, i) # 0 /\ CharAt(s1, i) = CharAt(s2, i) /\ i < Len(s2)
    THEN StrcmpFrom(s1, s2, i + 1)
    ELSE CharAt(s1, i) - CharAt(s2, i)

strcmp(s1, s2) == StrcmpFrom(s1, s2, 0)

tolower(s) == [i \in 1..Len(s) |-> IF 65 <= s[i] /\ s[i] <= 90 THEN 97 + (s[i] - 65) ELSE s[i]]

\* ltoa(i, 10, buf) for i >= 0.
RECURSIVE Digits(_)
Digits(i) == IF i < 10 THEN <<48 + i>> ELSE Digits(i \div 10) \o <<48 + (i % 10)>>

ltoa(i) == Digits(i)

\* The int of the compiler: 32 bits in two halves, arithmetic modulo 2^32.
W16 == 65536

Int32(x) == [hi |-> (x \div W16) % W16, lo |-> x % W16]

Signed(a) == IF a.hi >= W16 \div 2 THEN (a.hi - W16) * W16 + a.lo ELSE a.hi * W16 + a.lo

Add32(a, b) ==
    LET lo == a.lo + b.lo
    IN  [hi |-> (a.hi + b.hi + (lo \div W16)) % W16, lo |-> lo % W16]

Neg32(a) ==
    IF a.lo = 0 THEN [hi |-> (W16 - a.hi) % W16, lo |-> 0]
    ELSE [hi |-> W16 - 1 - a.hi, lo |-> W16 - a.lo]

\* a * k for -256 < k < 256
Mul32(a, k) ==
    LET n == IF k < 0 THEN 0 - k ELSE k
        lo == a.lo * n
        r == [hi |-> (a.hi * n + (lo \div W16)) % W16, lo |-> lo % W16]
    IN  IF k < 0 THEN Neg32(r) ELSE r

\* x % m of C for m > 0: the sign of the result is that of x.
Remainder(x, m) ==
    IF x >= 0 THEN x % m
    ELSE IF x > 0 - m THEN x
    ELSE 0 - ((0 - (x + m)) % m)

\* ------------------------------------------------------------------ fat12.c
EOF == 4080
BYTES_PER_SECTOR == 512
ROOT_DIRECTORY_ENTRIES == 224
DATA_AREA_BEGINNING == 31

\* A faulty HashFileName: the characters are added up without their place.
RECURSIVE HashFrom_NoPlace(_, _, _, _)
HashFrom_NoPlace(FileName, i, hash0, p0) ==
    Bind(hash0, LAMBDA hash :
        IF i >= Len(FileName) THEN hash
        ELSE HashFrom_NoPlace(FileName, i + 1,
                 Remainder(Signed(Add32(Int32(hash), Int32(FileName[i + 1] - 97))),
                           1000000007), p0))

\* The loop of HashFileName: hash += (FileName[i] - 'a') * p; hash %= m;
\* p *= 41, with hash and p of type int.
RECURSIVE HashFrom(_, _, _, _)
HashFrom(FileName, i, hash0, p0) ==
    Bind(hash0, LAMBDA hash : Bind(p0, LAMBDA p :
        IF i >= Len(FileName) THEN hash
        ELSE HashFrom(FileName, i + 1,
                 Bind(Signed(Add32(Int32(hash), Mul32(p, FileName[i + 1] - 97))),
                      LAMBDA sum : Remainder(sum, 1000000007)),
                 Mul32(p, 41))))

HashFileName(FileName) == HashFrom(FileName, 0, 0, Int32(1))

\* The FAT in memory is a sequence of bytes, of which the model has those
\* of the first FatClusters clusters.
FatClusters == 32

ByteAt(bytes, i) == bytes[i + 1]

SetByte(bytes, i, b) == [bytes EXCEPT ![i + 1] = b]

\* FATRead: the 16 bits at fatOffset, little endian, and of them the 12 bits
\* of the cluster.
FATRead(FAT, Cluster) ==
    LET fatOffset == (Cluster \div 2) + Cluster
        val == ByteAt(FAT, fatOffset) + 256 * ByteAt(FAT, fatOffset + 1)
    IN  IF Cluster % 2 = 1 THEN val \div 16 ELSE val % 4096

\* A faulty FATWrite: the cluster with an odd number is written as the one
\* with an even number.
FATWrite_AlwaysEven(FAT, Cluster, Value) ==
    LET fatOffset == (Cluster \div 2) + Cluster
        b1 == ByteAt(FAT, fatOffset + 1)
    IN  SetByte(SetByte(FAT, fatOffset, Value % 256),
                fatOffset + 1, (b1 \div 16) * 16 + ((Value \div 256) % 16))

FATWrite(FAT, Cluster, Value) ==
    LET fatOffset == (Cluster \div 2) + Cluster
        b0 == ByteAt(FAT, fatOffset)
        b1 == ByteAt(FAT, fatOffset + 1)
    IN  IF Cluster % 2 = 0
        THEN SetByte(SetByte(FAT, fatOffset, Value % 256),
                     fatOffset + 1, (b1 \div 16) * 16 + ((Value \div 256) % 16))
        ELSE SetByte(SetByte(FAT, fatOffset, (b0 % 16) + (Value % 16) * 16),
                     fatOffset + 1, (Value \div 16) % 256)

\* FindNextFreeFATEntry: the first cluster from 2 on whose entry is 0.
RECURSIVE FirstFreeFrom(_, _)
FirstFreeFrom(FAT, Cluster) ==
    IF FATRead(FAT, Cluster) = 0 THEN Cluster ELSE FirstFreeFrom(FAT, Cluster + 1)

FindNextFreeFATEntry(FAT) == FirstFreeFrom(FAT, 2)

\* The state of the file system as the functions of fat12.c see it: the
\* root directory and the FAT in memory (root, fat), the FileDescriptorList
\* (list), the disk (data: the sectors of the data area, root and fat as
\* WriteRootDirectoryAndFAT wrote them last), the buffer of the caller, the
\* value the function returns (ret) and what went wrong on the way: bytes
\* were written behind the end of a heap block (overflow), a pointer that
\* was read from address 0 was followed or a copy ran across the address
\* space (wild), a sector behind the end of the disk was asked for (error).
\* The times of day in the root directory entries are left out.
NoEntry == -1
DiskSectors == 2880

\* A sector of the disk is kept as the sequence of its bytes without the
\* zeros at its end. The model has the sectors of the first FatClusters
\* clusters, from sector 31 on.
LastNonZero(bytes) ==
    CHOOSE i \in 0..Len(bytes) :
        /\ i = 0 \/ bytes[i] # 0
        /\ \A j \in (i + 1)..Len(bytes) : bytes[j] = 0

Trim(bytes0) == Bind(bytes0, LAMBDA bytes : SubSeq(bytes, 1, LastNonZero(bytes)))

ZeroSector == [i \in 1..BYTES_PER_SECTOR |-> 0]

\* The first n bytes at an address where bytes and then zeros are.
Padded(bytes, n) ==
    IF Len(bytes) >= n THEN SubSeq(bytes, 1, n)
    ELSE bytes \o SubSeq(ZeroSector, 1, n - Len(bytes))

\* The sector LBA of the data area; a sector nothing was written to is zero.
SectorAt(data, LBA) ==
    IF LBA - DATA_AREA_BEGINNING + 1 \in DOMAIN data
    THEN data[LBA - DATA_AREA_BEGINNING + 1] ELSE << >>

\* ReadSectors(TargetAddress, LBA, 1)
ReadSectors(data, LBA) == Padded(SectorAt(data, LBA), BYTES_PER_SECTOR)

\* WriteSectors(SourceAddress, LBA, 1): the sector gets the first 512 bytes
\* at SourceAddress.
WriteSectors(data, SourceAddress, LBA) ==
    [data EXCEPT ![LBA - DATA_AREA_BEGINNING + 1] =
                     Trim(Padded(SourceAddress, BYTES_PER_SECTOR))]

OnDisk(LBA) == LBA < DiskSectors

\* The root directory in memory: the model has its first RootEntries
\* entries, by index from 0. A zeroed entry is free.
RootEntries == 8

ZeroedEntry == [FileName |-> << >>, FirstCluster |-> 0, FileSize |-> 0]

RootEntryAt(root, i) == root[i + 1]

\* A faulty FindRootDirectoryEntry: behind the loop it returns the entry the
\* loop has ended on.
FindRootDirectoryEntry_ReturnsLastEntry(root, FileName) ==
    LET found == {i \in 0..(Len(root) - 1) :
                     /\ CharAt(RootEntryAt(root, i).FileName, 0) # 0
                     /\ strcmp(FileName, RootEntryAt(root, i).FileName) = 0}
    IN  IF found = {} THEN Len(root) - 1 ELSE CHOOSE i \in found : \A j \in found : i <= j

\* FindRootDirectoryEntry: the first entry in use whose name strcmp finds
\* equal. The byte behind the 11 characters of an entry is 0 (Attributes).
FindRootDirectoryEntry(root, FileName) ==
    LET found == {i \in 0..(Len(root) - 1) :
                     /\ CharAt(RootEntryAt(root, i).FileName, 0) # 0
                     /\ strcmp(FileName, RootEntryAt(root, i).FileName) = 0}
    IN  IF found = {} THEN NoEntry ELSE CHOOSE i \in found : \A j \in found : i <= j

FindNextFreeRootDirectoryEntry(root) ==
    LET unused == {i \in 0..(Len(root) - 1) : CharAt(RootEntryAt(root, i).FileName, 0) = 0}
    IN  IF unused = {} THEN NoEntry ELSE CHOOSE i \in unused : \A j \in unused : i <= j

\* WriteRootDirectoryAndFAT
WriteRootDirectoryAndFAT(F) == [F EXCEPT !.diskRoot = F.root, !.diskFat = F.fat]

\* AllocateNewClusterToFile
AllocateNewClusterToFile(F0, CurrentFATSector) ==
    Bind(F0, LAMBDA F :
        LET newFatSector == FindNextFreeFATEntry(F.fat)
        IN  [F EXCEPT !.fat = FATWrite(FATWrite(F.fat, CurrentFATSector, newFatSector),
                                       newFatSector, 4095),
                      !.data = WriteSectors(F.data, << >>, newFatSector + DATA_AREA_BEGINNING),
                      !.ret = newFatSector])

\* The clusters of a chain, from FirstCluster up to the one whose entry is
\* an end mark; the walk gives up after n clusters.
RECURSIVE FATChain(_, _, _)
FATChain(FAT, Cluster, n) ==
    IF n = 0 THEN << >>
    ELSE IF FATRead(FAT, Cluster) >= EOF THEN <<Cluster>>
    ELSE <<Cluster>> \o FATChain(FAT, FATRead(FAT, Cluster), n - 1)

\* A faulty DeallocateFATClusters: only the first cluster is given back.
DeallocateFATClusters_FirstOnly(F, FirstCluster) ==
    [F EXCEPT !.fat = FATWrite(F.fat, FirstCluster, 0),
              !.data = WriteSectors(F.data, << >>, FirstCluster + DATA_AREA_BEGINNING)]

\* DeallocateFATClusters: the loop, one cluster per turn.
RECURSIVE DeallocateFrom(_, _)
DeallocateFrom(F0, nextCluster) ==
    IF nextCluster >= EOF THEN F0
    ELSE Bind(F0, LAMBDA F :
             DeallocateFrom(
                 [F EXCEPT !.fat = FATWrite(F.fat, nextCluster, 0),
                           !.data = WriteSectors(F.data, << >>,
                                                 nextCluster + DATA_AREA_BEGINNING)],
                 FATRead(F.fat, nextCluster)))

DeallocateFATClusters(F, FirstCluster) ==
    DeallocateFrom(
        [F EXCEPT !.fat = FATWrite(F.fat, FirstCluster, 0),
                  !.data = WriteSectors(F.data, << >>, FirstCluster + DATA_AREA_BEGINNING)],
        FATRead(F.fat, FirstCluster))

\* CreateFile for a name of 8 and an extension of 3 characters. strcpy
\* copies InitialContent and its terminating 0 into a block of 512 bytes.
CreateFile(F0, FileName, Extension, InitialContent) ==
    Bind(F0, LAMBDA F :
        LET freeEntry == FindNextFreeRootDirectoryEntry(F.root)
            startCluster == FindNextFreeFATEntry(F.fat)
            newEntry == [FileName |-> FileName \o Extension,
                         FirstCluster |-> startCluster,
                         FileSize |-> Len(InitialContent)]
        IN  IF freeEntry = NoEntry THEN F
            ELSE [WriteRootDirectoryAndFAT(
                     [F EXCEPT !.fat = FATWrite(F.fat, startCluster, 4095),
                               !.root[freeEntry + 1] = newEntry])
                  EXCEPT !.data = WriteSectors(F.data, InitialContent,
                                               startCluster + DATA_AREA_BEGINNING),
                         !.overflow = F.overflow \/ Len(InitialContent) + 1 > BYTES_PER_SECTOR])

\* DeleteFile
DeleteFile(F0, FileName, Extension) ==
    Bind(F0, LAMBDA F :
        LET rootEntry == FindRootDirectoryEntry(F.root, FileName \o Extension)
        IN  IF rootEntry = NoEntry THEN F
            ELSE Bind(DeallocateFATClusters(F, RootEntryAt(F.root, rootEntry).FirstCluster), LAMBDA D :
                     WriteRootDirectoryAndFAT(
                         [D EXCEPT !.root[rootEntry + 1] = ZeroedEntry])))

\* OpenFile by the task with the given PID. The FileDescriptor structures
\* are kept in F.descriptor, by address; nothing ever frees one.
OpenFile(F0, FileName, Extension, PID) ==
    Bind(F0, LAMBDA F :
        LET rootEntry == FindRootDirectoryEntry(F.root, FileName \o Extension)
            hashValue == HashFileName(tolower(FileName \o Extension) \o ltoa(PID))
            newDescriptor == [FileName |-> FileName, Extension |-> Extension,
                              FileSize |-> RootEntryAt(F.root, rootEntry).FileSize,
                              CurrentFileOffset |-> 0]
        IN  IF rootEntry = NoEntry THEN [F EXCEPT !.ret = 0]
            ELSE [F EXCEPT !.descriptor = Append(F.descriptor, newDescriptor),
                           !.list = AddEntryToList(F.list, Len(F.descriptor) + 1, hashValue),
                           !.ret = hashValue])

\* CloseFile; FreeMemory is the third argument of RemoveEntryFromList, which
\* the call does not pass. The function returns nothing.
CloseFile(F0, FileHandle, FreeMemory) ==
    Bind(F0, LAMBDA F :
        LET listEntry == GetEntryFromList(F.list, FileHandle)
        IN  IF listEntry = NULL THEN F
            ELSE [F EXCEPT !.list = Reclaim(RemoveEntryFromList(F.list, listEntry, FreeMemory))])

\* entry->Payload for the entry GetEntryFromList has returned: for the
\* entry 0 the 8 bytes at address 0 are read, which the kernel never writes
\* (word0). A descriptor that is not 0 and not in F.descriptor is the value
\* read there.
Wild == -1

DescriptorOf(F, FileHandle, word0) ==
    LET listEntry == GetEntryFromList(F.list, FileHandle)
    IN  IF listEntry # NULL THEN F.list.Entry[listEntry].Payload
        ELSE IF word0 = 0 THEN NULL ELSE Wild

\* The cluster that holds the byte at the offset: the walk of ReadFile.
RECURSIVE FATWalk(_, _, _)
FATWalk(FAT, fatSector, cluster) ==
    IF cluster = 0 THEN fatSector ELSE FATWalk(FAT, FATRead(FAT, fatSector), cluster - 1)

\* A faulty ReadFile: the following sector is never read.
ReadFrom_OneSector(F, rootEntry, Offset, Length) ==
    LET cluster == Offset \div BYTES_PER_SECTOR
        offsetWithinCluster == Offset - (cluster * BYTES_PER_SECTOR)
        fatSector == FATWalk(F.fat, RootEntryAt(F.root, rootEntry).FirstCluster, cluster)
        file_buffer == ReadSectors(F.data, fatSector + DATA_AREA_BEGINNING)
                           \o ZeroSector
    IN  [stuck |-> ~OnDisk(fatSector + DATA_AREA_BEGINNING),
         overflow |-> FALSE,
         bytes |-> SubSeq(file_buffer, offsetWithinCluster + 1, offsetWithinCluster + Length)]

\* What ReadFile does for Length bytes at Offset of the file of rootEntry,
\* with Offset + Length inside the file: the sectors it asks for (stuck: one
\* of them is behind the end of the disk), the second sector that it reads
\* into the memory behind file_buffer (overflow) and the bytes it copies.
ReadFrom(F, rootEntry, Offset, Length) ==
    LET cluster == Offset \div BYTES_PER_SECTOR
        offsetWithinCluster == Offset - (cluster * BYTES_PER_SECTOR)
        fatSector == FATWalk(F.fat, RootEntryAt(F.root, rootEntry).FirstCluster, cluster)
        fatSectorFollowing == FATRead(F.fat, fatSector)
        twoSectors == offsetWithinCluster + Length > BYTES_PER_SECTOR
        file_buffer == ReadSectors(F.data, fatSector + DATA_AREA_BEGINNING)
                           \o (IF twoSectors
                               THEN ReadSectors(F.data, fatSectorFollowing + DATA_AREA_BEGINNING)
                               ELSE << >>)
    IN  [stuck |-> \/ ~OnDisk(fatSector + DATA_AREA_BEGINNING)
                   \/ twoSectors /\ ~OnDisk(fatSectorFollowing + DATA_AREA_BEGINNING),
         overflow |-> twoSectors,
         bytes |-> SubSeq(file_buffer, offsetWithinCluster + 1, offsetWithinCluster + Length)]

\* ReadFile. The buffer of the caller is zeroed before anything is checked.
\* With the offset behind the end of the file Length gets a value near 2^64
\* and memcpy runs through the address space (wild). The function returns
\* nothing.
ReadFile(F0, FileHandle, Length0, word0) ==
    Bind([F0 EXCEPT !.buf = [i \in 1..Length0 |-> 0]], LAMBDA F :
        LET d == DescriptorOf(F, FileHandle, word0)
        IN  IF Length0 > BYTES_PER_SECTOR \/ d = NULL THEN F
            ELSE IF d = Wild THEN [F EXCEPT !.wild = TRUE]
            ELSE LET descriptor == F.descriptor[d]
                     rootEntry == FindRootDirectoryEntry(F.root,
                                      descriptor.FileName \o descriptor.Extension)
                     Offset == descriptor.CurrentFileOffset
                     Length == IF Offset + Length0 > descriptor.FileSize
                               THEN descriptor.FileSize - Offset ELSE Length0
                 IN  IF rootEntry = NoEntry THEN F
                     ELSE IF Length < 0 THEN [F EXCEPT !.wild = TRUE]
                     ELSE Bind(ReadFrom(F, rootEntry, Offset, Length), LAMBDA R :
                              IF R.stuck THEN [F EXCEPT !.stuck = TRUE]
                              ELSE [F EXCEPT
                                      !.buf = [i \in 1..Length0 |->
                                                 IF i <= Length THEN R.bytes[i] ELSE 0],
                                      !.overflow = F.overflow \/ R.overflow,
                                      !.descriptor[d].CurrentFileOffset = Offset + Length]))

\* The loop of WriteFile that walks to the cluster of the offset and
\* allocates the clusters the chain does not have.
RECURSIVE WriteWalk(_, _, _)
WriteWalk(F0, currentFatSector, cluster) ==
    IF cluster = 0 THEN [F0 EXCEPT !.ret = currentFatSector]
    ELSE Bind(F0, LAMBDA F :
             LET nextFatSector == FATRead(F.fat, currentFatSector)
             IN  IF nextFatSector >= EOF
                 THEN Bind(AllocateNewClusterToFile(F, currentFatSector), LAMBDA A :
                          WriteWalk(A, A.ret, cluster - 1))
                 ELSE WriteWalk(F, nextFatSector, cluster - 1))

\* A faulty WriteFile: the size of the file is set to the length written.
NewFileSize_LengthOnly(FileSize, Offset, Length) ==
    IF Offset + Length > FileSize THEN Length ELSE FileSize

\* The FileSize of the RootDirectoryEntry after Length bytes were written
\* at Offset.
NewFileSize(FileSize, Offset, Length) ==
    IF Offset + Length > FileSize THEN Offset + Length ELSE FileSize

\* WriteFile for a buffer of Length bytes. The function ends without a
\* return statement: what the caller gets is not defined (ret).
WriteFile(F0, FileHandle, Bytes, Length, word0, ret) ==
    Bind(F0, LAMBDA F :
        LET d == DescriptorOf(F, FileHandle, word0)
        IN  IF Length > BYTES_PER_SECTOR THEN [F EXCEPT !.ret = 0]
            ELSE IF d = NULL THEN [F EXCEPT !.ret = ret]
            ELSE IF d = Wild THEN [F EXCEPT !.wild = TRUE, !.ret = ret]
            ELSE
              LET descriptor == F.descriptor[d]
                  rootEntry == FindRootDirectoryEntry(F.root,
                                   descriptor.FileName \o descriptor.Extension)
                  Offset == descriptor.CurrentFileOffset
                  cluster == Offset \div BYTES_PER_SECTOR
                  offsetWithinCluster == Offset - (cluster * BYTES_PER_SECTOR)
                  twoSectors == offsetWithinCluster + Length >= BYTES_PER_SECTOR
              IN  IF rootEntry = NoEntry THEN [F EXCEPT !.ret = ret]
                  ELSE
                  Bind(WriteWalk(F, RootEntryAt(F.root, rootEntry).FirstCluster, cluster), LAMBDA W :
                  Bind(IF twoSectors /\ descriptor.FileSize < Offset + Length
                       THEN [AllocateNewClusterToFile(W, W.ret) EXCEPT !.ret = W.ret]
                       ELSE W, LAMBDA X :
                    LET currentFatSector == X.ret
                        fatSectorFollowing == FATRead(X.fat, currentFatSector)
                        read == ReadSectors(X.data, currentFatSector + DATA_AREA_BEGINNING)
                                  \o (IF twoSectors
                                      THEN ReadSectors(X.data,
                                               fatSectorFollowing + DATA_AREA_BEGINNING)
                                      ELSE << >>)
                        file_buffer == SubSeq(read, 1, offsetWithinCluster)
                                         \o SubSeq(Bytes, 1, Length)
                                         \o SubSeq(read, offsetWithinCluster + Length + 1,
                                                   Len(read))
                        data1 == WriteSectors(X.data, file_buffer,
                                     currentFatSector + DATA_AREA_BEGINNING)
                        data2 == IF twoSectors
                                 THEN WriteSectors(data1,
                                          SubSeq(file_buffer, BYTES_PER_SECTOR + 1,
                                                 Len(file_buffer)),
                                          fatSectorFollowing + DATA_AREA_BEGINNING)
                                 ELSE data1
                        size == NewFileSize(RootEntryAt(X.root, rootEntry).FileSize, Offset, Length)
                    IN  IF \/ ~OnDisk(currentFatSector + DATA_AREA_BEGINNING)
                           \/ twoSectors /\ ~OnDisk(fatSectorFollowing + DATA_AREA_BEGINNING)
                        THEN [X EXCEPT !.stuck = TRUE, !.ret = ret]
                        ELSE WriteRootDirectoryAndFAT(
                               [X EXCEPT
                                  !.data = data2,
                                  !.overflow = X.overflow \/ twoSectors,
                                  !.descriptor[d].CurrentFileOffset = Offset + Length,
                                  !.descriptor[d].FileSize =
                                      IF Offset + Length > RootEntryAt(X.root, rootEntry).FileSize
                                      THEN Offset + Length ELSE @,
                                  !.root[rootEntry + 1].FileSize = size,
                                  !.ret = ret]))))

\* SeekFile
SeekFile(F0, FileHandle, NewFileOffset, word0) ==
    Bind(F0, LAMBDA F :
        LET d == DescriptorOf(F, FileHandle, word0)
        IN  IF d = NULL THEN [F EXCEPT !.ret = 0]
            ELSE IF d = Wild THEN [F EXCEPT !.wild = TRUE, !.ret = 0]
            ELSE [F EXCEPT !.descriptor[d].CurrentFileOffset = NewFileOffset, !.ret = 0])

\* EndOfFile. Without a descriptor it compares the 8 bytes at address 24
\* with those at address 16 if the 8 bytes at address 0 are 0 (the kernel
\* writes none of them: same) and follows the pointer it has read if not.
EndOfFile(F0, FileHandle, word0, same) ==
    Bind(F0, LAMBDA F :
        LET d == DescriptorOf(F, FileHandle, word0)
        IN  IF d = NULL THEN [F EXCEPT !.ret = IF same THEN 1 ELSE 0]
            ELSE IF d = Wild THEN [F EXCEPT !.wild = TRUE, !.ret = 0]
            ELSE [F EXCEPT !.ret = IF F.descriptor[d].CurrentFileOffset
                                        = F.descriptor[d].FileSize THEN 1 ELSE 0])
\* ------------------------------------------------- the file system at work
\* The names of files: 8 characters and 3 of the extension.
SHELL_BIN == <<83, 72, 69, 76, 76, 32, 32, 32, 66, 73, 78>>
PROG1_BIN == <<80, 82, 79, 71, 49, 32, 32, 32, 66, 73, 78>>
TEST_TXT == <<84, 69, 83, 84, 32, 32, 32, 32, 84, 88, 84>>
NONE_TXT == <<78, 79, 78, 69, 32, 32, 32, 32, 84, 88, 84>>

FileNameOf(name) == SubSeq(name, 1, 8)
ExtensionOf(name) == SubSeq(name, 9, 11)

\* The file system in the variables of the model.
FileSystem ==
    [root |-> ROOT_DIRECTORY_BUFFER, fat |-> FAT_BUFFER, list |-> FileDescriptorList,
     descriptor |-> fileDescriptor, data |-> disk, diskRoot |-> diskRootDirectory,
     diskFat |-> diskFAT, buf |-> UserBuffer, overflow |-> heapOverflow,
     wild |-> wild, stuck |-> ataStuck, ret |-> 0]

FileSystemBecomes(F) ==
    /\ ROOT_DIRECTORY_BUFFER' = F.root
    /\ FAT_BUFFER' = F.fat
    /\ FileDescriptorList' = F.list
    /\ fileDescriptor' = F.descriptor
    /\ disk' = F.data
    /\ diskRootDirectory' = F.diskRoot
    /\ diskFAT' = F.diskFat
    /\ UserBuffer' = F.buf
    /\ heapOverflow' = F.overflow
    /\ wild' = F.wild
    /\ ataStuck' = F.stuck

\* The handle OpenFile gives the task with the PID for the file.
HandleOf(name, PID) == HashFileName(tolower(name) \o ltoa(PID))

\* -------------------------------------------------------------- syscall.c
SYSCALL_PRINTF == 1
SYSCALL_GETPID == 2
SYSCALL_TERMINATE_PROCESS == 3
SYSCALL_GETCHAR == 4
SYSCALL_GETCURSOR == 5
SYSCALL_SETCURSOR == 6
SYSCALL_EXECUTE == 7
SYSCALL_PRINTROOTDIRECTORY == 8
SYSCALL_CLEARSCREEN == 9
SYSCALL_CREATEFILE == 10
SYSCALL_DELETEFILE == 11
SYSCALL_OPENFILE == 12
SYSCALL_CLOSEFILE == 13
SYSCALL_READFILE == 14
SYSCALL_WRITEFILE == 15
SYSCALL_ENDOFFILE == 16
SYSCALL_SEEKFILE == 17

\* A 64-bit register as its two halves of 32 bits, and the conversion
\* to int of "int sysCallNumber = Registers->RDI", which keeps the lower.
Register(hi, lo) == [hi |-> hi, lo |-> lo]
IntOf(register) == register.lo

\* The values programs put into RDI: the numbers from 0 to one behind the
\* last of syscall.h, and the first and the last of them with bit 32 set.
SysCallNumbers == {Register(0, lo) : lo \in 0..18} \cup {Register(1, lo) : lo \in {1, 18}}

\* A faulty SysCallHandlerC: the branches for the files are tested for the
\* numbers 10 to 16, those of open, read, write, seek, eof, close, delete.
Branch_FilesFromTen(sysCallNumber) ==
    IF sysCallNumber = SYSCALL_PRINTF THEN "printf"
    ELSE IF sysCallNumber = SYSCALL_GETPID THEN "GetTaskState"
    ELSE IF sysCallNumber = SYSCALL_TERMINATE_PROCESS THEN "TerminateTask"
    ELSE IF sysCallNumber = SYSCALL_GETCHAR THEN "KEYBOARD_BUFFER"
    ELSE IF sysCallNumber = SYSCALL_GETCURSOR THEN "GetCursorPosition"
    ELSE IF sysCallNumber = SYSCALL_SETCURSOR THEN "SetCursorPosition"
    ELSE IF sysCallNumber = SYSCALL_EXECUTE THEN "USERMODE_PROGRAMM_TO_EXECUTE"
    ELSE IF sysCallNumber = SYSCALL_PRINTROOTDIRECTORY THEN "PrintRootDirectory"
    ELSE IF sysCallNumber = SYSCALL_CLEARSCREEN THEN "ClearScreen"
    ELSE IF sysCallNumber = 16 THEN "DeleteFile"
    ELSE IF sysCallNumber = 10 THEN "OpenFile"
    ELSE IF sysCallNumber = 15 THEN "CloseFile"
    ELSE IF sysCallNumber = 11 THEN "ReadFile"
    ELSE IF sysCallNumber = 12 THEN "WriteFile"
    ELSE IF sysCallNumber = 14 THEN "EndOfFile"
    ELSE IF sysCallNumber = 13 THEN "SeekFile"
    ELSE "return 0"

\* The if-else chain of SysCallHandlerC: the branch taken for a number,
\* named after what the branch calls or reads.
Branch(sysCallNumber) ==
    IF sysCallNumber = SYSCALL_PRINTF THEN "printf"
    ELSE IF sysCallNumber = SYSCALL_GETPID THEN "GetTaskState"
    ELSE IF sysCallNumber = SYSCALL_TERMINATE_PROCESS THEN "TerminateTask"
    ELSE IF sysCallNumber = SYSCALL_GETCHAR THEN "KEYBOARD_BUFFER"
    ELSE IF sysCallNumber = SYSCALL_GETCURSOR THEN "GetCursorPosition"
    ELSE IF sysCallNumber = SYSCALL_SETCURSOR THEN "SetCursorPosition"
    ELSE IF sysCallNumber = SYSCALL_EXECUTE THEN "USERMODE_PROGRAMM_TO_EXECUTE"
    ELSE IF sysCallNumber = SYSCALL_PRINTROOTDIRECTORY THEN "PrintRootDirectory"
    ELSE IF sysCallNumber = SYSCALL_CLEARSCREEN THEN "ClearScreen"
    ELSE IF sysCallNumber = SYSCALL_DELETEFILE THEN "DeleteFile"
    ELSE IF sysCallNumber = SYSCALL_OPENFILE THEN "OpenFile"
    ELSE IF sysCallNumber = SYSCALL_CLOSEFILE THEN "CloseFile"
    ELSE IF sysCallNumber = SYSCALL_READFILE THEN "ReadFile"
    ELSE IF sysCallNumber = SYSCALL_WRITEFILE THEN "WriteFile"
    ELSE IF sysCallNumber = SYSCALL_ENDOFFILE THEN "EndOfFile"
    ELSE IF sysCallNumber = SYSCALL_SEEKFILE THEN "SeekFile"
    ELSE "return 0"

\* What the programs pass in the registers: names of a file that exists
\* and of one that does not, the handle the task has or had for the file
\* and a number that is no handle, offsets, lengths, a buffer.
ProgramNames == {PROG1_BIN, NONE_TXT}
Handles == {HandleOf(PROG1_BIN, USER_PID), HandleOf(PROG1_BIN, 4), 1}
Offsets == {0, 600}
Lengths == {13, 600}
Aschenbrenner == <<65, 115, 99, 104, 101, 110, 98, 114, 101, 110, 110, 101, 114>>

\* One call of the file system as the history keeps it, with the task that
\* was on the CPU.
FileOp(op, name, handle, bytes, n, ret) ==
    [op |-> op, name |-> name, handle |-> handle, bytes |-> bytes, n |-> n, ret |-> ret,
     task |-> current]

\* The variables a system call does not touch unless its branch says so.
SchedRest == <<TaskList, entry, task, counter, systemDate, current, nullWrite, observe, winTicks, winBase>>
SysRest == <<KEYBOARD_BUFFER, USERMODE_PROGRAMM_TO_EXECUTE, owed>>
FatRest == <<ROOT_DIRECTORY_BUFFER, FAT_BUFFER, FileDescriptorList, fileDescriptor, disk,
             diskRootDirectory, diskFAT, UserBuffer, heapOverflow, ataStuck>>

\* The branches of SysCallHandlerC that call into the file system: the
\* registers they read and the function they call. The functions that are
\* void, and WriteFile at its end, leave in RAX what was there (garbage).
FileBranch(RDI, branch, In) ==
    \/ /\ branch = "DeleteFile"
       /\ \E name \in In.names, garbage \in In.uninit :
            /\ Registers' = [RDI |-> RDI, RSI |-> FileNameOf(name),
                             RDX |-> ExtensionOf(name)]
            /\ FileSystemBecomes(DeleteFile(FileSystem, FileNameOf(name), ExtensionOf(name)))
            /\ RAX' = garbage
    \/ /\ branch = "OpenFile"
       /\ HasFreeEntry(FileDescriptorList.Entry)
       /\ \E name \in In.names :
          \E F \in {OpenFile(FileSystem, FileNameOf(name), ExtensionOf(name),
                             task[current].PID)} :
            /\ Registers' = [RDI |-> RDI, RSI |-> FileNameOf(name),
                             RDX |-> ExtensionOf(name)]
            /\ FileSystemBecomes(F)
            /\ RAX' = F.ret
    \/ /\ branch = "CloseFile"
       /\ \E FileHandle \in In.handles, FreeMemory \in BOOLEAN, garbage \in In.uninit :
            /\ Registers' = [RDI |-> RDI, RSI |-> FileHandle]
            /\ FileSystemBecomes(CloseFile(FileSystem, FileHandle, FreeMemory))
            /\ RAX' = garbage
    \/ /\ branch = "ReadFile"
       /\ \E FileHandle \in In.handles, Length \in In.lengths, word0 \in In.uninit,
             garbage \in In.uninit :
            /\ Registers' = [RDI |-> RDI, RSI |-> FileHandle, RCX |-> Length]
            /\ FileSystemBecomes(ReadFile(FileSystem, FileHandle, Length, word0))
            /\ RAX' = garbage
    \/ /\ branch = "WriteFile"
       /\ \E FileHandle \in In.handles, Buffer \in In.buffers, word0 \in In.uninit,
             garbage \in In.uninit :
          \E F \in {WriteFile(FileSystem, FileHandle, Buffer, Len(Buffer), word0, garbage)} :
            /\ Registers' = [RDI |-> RDI, RSI |-> FileHandle,
                             RDX |-> Buffer, RCX |-> Len(Buffer)]
            /\ FileSystemBecomes(F)
            /\ RAX' = F.ret
    \/ /\ branch = "EndOfFile"
       /\ \E FileHandle \in In.handles, word0 \in In.uninit, same \in BOOLEAN :
          \E F \in {EndOfFile(FileSystem, FileHandle, word0, same)} :
            /\ Registers' = [RDI |-> RDI, RSI |-> FileHandle]
            /\ FileSystemBecomes(F)
            /\ RAX' = F.ret
    \/ /\ branch = "SeekFile"
       /\ \E FileHandle \in In.handles, NewFileOffset \in In.offsets, word0 \in In.uninit :
          \E F \in {SeekFile(FileSystem, FileHandle, NewFileOffset, word0)} :
            /\ Registers' = [RDI |-> RDI, RSI |-> FileHandle,
                             RDX |-> NewFileOffset]
            /\ FileSystemBecomes(F)
            /\ RAX' = F.ret

\* What the programs of a specification pass to the system calls, and how
\* many system calls they raise.
DefaultInputs ==
    [names |-> ProgramNames, handles |-> Handles, offsets |-> Offsets, lengths |-> Lengths,
     buffers |-> {Aschenbrenner}, uninit |-> UninitValues, max |-> MaxSysCalls]

\* The file a handle stands for: the name in the FileDescriptor.
FileOfHandle(FileHandle) ==
    LET d == fileDescriptor[DescriptorOf(FileSystem, FileHandle, 0)]
    IN  d.FileName \o d.Extension

\* SysCallHandlerC, raised by the task on the CPU, a task of ring 3, with
\* the 64 bits of RDI. Interrupts are disabled while it runs. What printf,
\* GetCursorPosition, SetCursorPosition, PrintRootDirectory and ClearScreen
\* do to the screen is not followed.
SysCallWith(RDI, In) ==
    /\ ~wild
    /\ ~halted
    /\ ~ataStuck
    /\ current # NULL
    /\ task[current].Ring = 3
    /\ InList(current)
    /\ sysCalls < In.max
    /\ sysCalls' = sysCalls + 1
    /\ UNCHANGED <<loader, tssVars, irqVars>>
    /\ \E branch \in {Branch(IntOf(RDI))} :
        /\ called' = branch
        /\ \/ /\ branch \in {"printf", "GetCursorPosition", "SetCursorPosition",
                               "PrintRootDirectory", "ClearScreen"}
              /\ Registers' = [RDI |-> RDI]
              /\ RAX' = 1
              /\ UNCHANGED <<schedVars, heapVars, pfaVars, vmmVars, FatRest, SysRest>>
           \/ /\ branch = "GetTaskState"
              /\ Registers' = [RDI |-> RDI]
              /\ RAX' = task[current].PID
              /\ UNCHANGED <<schedVars, heapVars, pfaVars, vmmVars, FatRest, SysRest>>
           \/ /\ branch = "TerminateTask"
              /\ Registers' = [RDI |-> RDI]
              /\ TerminateTask(task[current].PID)
              /\ RAX' = 1
              /\ UNCHANGED <<FatRest, SysRest>>
           \/ /\ branch = "KEYBOARD_BUFFER"
              /\ Registers' = [RDI |-> RDI]
              /\ RAX' = KEYBOARD_BUFFER
              /\ KEYBOARD_BUFFER' = 0
              /\ UNCHANGED <<schedVars, heapVars, pfaVars, vmmVars, FatRest,
                             USERMODE_PROGRAMM_TO_EXECUTE, owed>>
           \/ /\ branch = "USERMODE_PROGRAMM_TO_EXECUTE"
              /\ \E name \in In.names :
                   /\ Registers' = [RDI |-> RDI, RSI |-> name]
                   /\ IF FindRootDirectoryEntry(ROOT_DIRECTORY_BUFFER, name) # NoEntry
                      THEN /\ USERMODE_PROGRAMM_TO_EXECUTE' = name
                           /\ owed' = Append(owed, name)
                           /\ RAX' = 1
                      ELSE /\ UNCHANGED <<USERMODE_PROGRAMM_TO_EXECUTE, owed>>
                           /\ RAX' = 0
              /\ UNCHANGED <<schedVars, heapVars, pfaVars, vmmVars, FatRest, KEYBOARD_BUFFER>>
           \/ /\ FileBranch(RDI, branch, In)
              /\ UNCHANGED <<SchedRest, heapVars, pfaVars, vmmVars, SysRest>>
           \/ /\ branch = "return 0"
              /\ Registers' = [RDI |-> RDI]
              /\ RAX' = 0
              /\ UNCHANGED <<schedVars, heapVars, pfaVars, vmmVars, FatRest, SysRest>>
    \* the history keeps the files the programs have opened, with the address
    \* of the FileDescriptor, and the seeks and writes through a handle of an
    \* open file, with the offset they were made at
    /\ fileOps' =
         IF called' = "OpenFile" /\ RAX' # 0
         THEN Append(fileOps, FileOp("OpenFile", Registers'.RSI \o Registers'.RDX,
                                     RAX', << >>, Len(fileDescriptor'), RAX'))
         ELSE IF /\ called' \in {"SeekFile", "WriteFile"}
                 /\ GetEntryFromList(FileDescriptorList, Registers'.RSI) # NULL
         THEN Append(fileOps,
                  FileOp(called', FileOfHandle(Registers'.RSI), Registers'.RSI,
                         IF called' = "WriteFile" THEN Registers'.RDX ELSE << >>,
                         IF called' = "WriteFile"
                         THEN fileDescriptor[DescriptorOf(FileSystem, Registers'.RSI, 0)]
                                 .CurrentFileOffset
                         ELSE Registers'.RDX,
                         RAX'))
         ELSE fileOps

SysCallHandlerC(RDI) == SysCallWith(RDI, DefaultInputs)


\* ---------------------------------------- StartUserModeTask, step by step
\* StartUserModeTask is the second task CreateInitialTasks creates.
LoaderTask == 2

LoaderRuns ==
    /\ ~wild
    /\ ~halted
    /\ current = LoaderTask
    /\ InList(current)

\* owed without its first element that is the name.
RECURSIVE WithoutFirst(_, _)
WithoutFirst(names, name) ==
    IF names = << >> THEN names
    ELSE IF Head(names) = name THEN Tail(names)
    ELSE <<Head(names)>> \o WithoutFirst(Tail(names), name)

\* if (strlen(str) == 11), found true. While it is false the loop changes
\* nothing.
StartUserModeTaskStrlen ==
    /\ LoaderRuns
    /\ loader = "strlen"
    /\ Len(USERMODE_PROGRAMM_TO_EXECUTE) = 11
    /\ loader' = "ExecuteUserModeProgram"
    /\ UNCHANGED <<Registers, RAX, called, sysCalls, KEYBOARD_BUFFER,
                   USERMODE_PROGRAMM_TO_EXECUTE, owed>>
    /\ UNCHANGED <<schedVars, heapVars, pfaVars, vmmVars, tssVars, fatVars, irqVars>>

\* strcpy(str, "")
StartUserModeTaskStrcpy ==
    /\ LoaderRuns
    /\ loader = "strcpy"
    /\ USERMODE_PROGRAMM_TO_EXECUTE' = << >>
    /\ loader' = "strlen"
    /\ UNCHANGED <<Registers, RAX, called, sysCalls, KEYBOARD_BUFFER, owed>>
    /\ UNCHANGED <<schedVars, heapVars, pfaVars, vmmVars, tssVars, fatVars, irqVars>>

\* ExecuteUserModeProgram(str, 10): the name in the slot is one the system
\* call has found in the root directory. A call that does not return
\* leaves the task where it is.
StartUserModeTaskExecute ==
    /\ LoaderRuns
    /\ loader = "ExecuteUserModeProgram"
    /\ FindRootDirectoryEntry(ROOT_DIRECTORY_BUFFER, USERMODE_PROGRAMM_TO_EXECUTE) # NoEntry
    /\ ExecuteUserModeProgramCall
    /\ IF Len(task') > Len(task)
       THEN /\ loader' = "strcpy"
            /\ owed' = WithoutFirst(owed, USERMODE_PROGRAMM_TO_EXECUTE)
       ELSE UNCHANGED <<loader, owed>>
    /\ UNCHANGED <<Registers, RAX, called, sysCalls, KEYBOARD_BUFFER,
                   USERMODE_PROGRAMM_TO_EXECUTE>>
    /\ UNCHANGED <<fatVars, irqVars>>

\* ------------------------------------------- fat12.c, called by the kernel
\* The contents files are created with: the 26 characters of FAT12Test and
\* 520 characters, more than a sector holds. What is written: 13 characters.
KlausTest ==
    <<68, 97, 115, 32, 105, 115, 116, 32, 101, 105, 110, 32, 84, 101, 115, 116, 32,
      118, 111, 110, 32, 75, 108, 97, 117, 115>>
LongContent == [i \in 1..520 |-> 97 + (i % 26)]

InitialContents == {KlausTest, LongContent}
SeekOffsets == {500, 2000}
ReadLengths == {26, 520}

\* The handles of the files that are open.
OpenHandles ==
    {FileDescriptorList.Entry[a].Key : a \in {b \in Addr : FileDescriptorList.Entry[b].Used}}

\* A task of ring 0 calls a function of fat12.c, as FAT12Test does.
KernelCalls ==
    /\ ~wild
    /\ ~halted
    /\ ~ataStuck
    /\ current # NULL
    /\ InList(current)
    /\ task[current].Ring = 0
    /\ Len(fileOps) < MaxFileOps
    /\ UNCHANGED <<SchedRest, heapVars, pfaVars, vmmVars, tssVars, sysVars, irqVars>>

KernelCreateFile ==
    /\ KernelCalls
    /\ \E InitialContent \in InitialContents :
         /\ FileSystemBecomes(CreateFile(FileSystem, FileNameOf(TEST_TXT),
                                         ExtensionOf(TEST_TXT), InitialContent))
         /\ fileOps' = Append(fileOps,
                FileOp("CreateFile", TEST_TXT, 0, InitialContent, Len(InitialContent), 0))

KernelDeleteFile ==
    /\ KernelCalls
    /\ \E name \in {TEST_TXT, PROG1_BIN, NONE_TXT} :
         /\ FileSystemBecomes(DeleteFile(FileSystem, FileNameOf(name), ExtensionOf(name)))
         /\ fileOps' = Append(fileOps, FileOp("DeleteFile", name, 0, << >>, 0, 0))

KernelOpenFile ==
    /\ KernelCalls
    /\ HasFreeEntry(FileDescriptorList.Entry)
    /\ \E name \in {TEST_TXT, NONE_TXT} :
       \E F \in {OpenFile(FileSystem, FileNameOf(name), ExtensionOf(name),
                          task[current].PID)} :
         /\ FileSystemBecomes(F)
         /\ fileOps' = Append(fileOps, FileOp("OpenFile", name, F.ret, << >>,
                                              Len(F.descriptor), F.ret))

KernelSeekFile ==
    /\ KernelCalls
    /\ \E FileHandle \in OpenHandles, NewFileOffset \in SeekOffsets :
         /\ FileSystemBecomes(SeekFile(FileSystem, FileHandle, NewFileOffset, 0))
         /\ fileOps' = Append(fileOps,
                FileOp("SeekFile", << >>, FileHandle, << >>, NewFileOffset, 0))

KernelReadFile ==
    /\ KernelCalls
    /\ \E FileHandle \in OpenHandles, Length \in ReadLengths :
         /\ FileSystemBecomes(ReadFile(FileSystem, FileHandle, Length, 0))
         /\ fileOps' = Append(fileOps, FileOp("ReadFile", << >>, FileHandle, << >>, Length, 0))

KernelWriteFile ==
    /\ KernelCalls
    /\ \E FileHandle \in OpenHandles, garbage \in {0} :
         /\ FileSystemBecomes(WriteFile(FileSystem, FileHandle, Aschenbrenner,
                                        Len(Aschenbrenner), 0, garbage))
         /\ fileOps' = Append(fileOps,
                FileOp("WriteFile", << >>, FileHandle, Aschenbrenner, Len(Aschenbrenner), 0))

FatNext ==
    \/ KernelCreateFile
    \/ KernelDeleteFile
    \/ KernelOpenFile
    \/ KernelSeekFile
    \/ KernelReadFile
    \/ KernelWriteFile

\* ------------------------------------------------------------------- irq.c
I86_PIC_OCW2_MASK_EOI == 32
I86_PIC1_REG_COMMAND == 32
I86_PIC2_REG_COMMAND == 160

\* The interrupt numbers of the 16 lines of the two controllers, and the
\* callbacks that get registered, by address.
IrqVectors == 32..47
Callbacks == {1, 2}

\* What IrqHandler does to the world outside, in order: a byte written to
\* a port, a callback called.
outb(port, value) == [op |-> "outb", a |-> port, b |-> value]
Call(handler, n) == [op |-> "call", a |-> handler, b |-> n]

\* A faulty IrqHandler: the callback runs before the controllers are told
\* that the interrupt is handled.
IrqHandlerDoes_CallbackFirst(handlers, n) ==
    (IF handlers[n] # 0 THEN <<Call(handlers[n], n)>> ELSE << >>)
        \o (IF n >= 40 THEN <<outb(I86_PIC2_REG_COMMAND, I86_PIC_OCW2_MASK_EOI)>> ELSE << >>)
        \o <<outb(I86_PIC1_REG_COMMAND, I86_PIC_OCW2_MASK_EOI)>>

IrqHandlerDoes(handlers, n) ==
    (IF n >= 40 THEN <<outb(I86_PIC2_REG_COMMAND, I86_PIC_OCW2_MASK_EOI)>> ELSE << >>)
        \o <<outb(I86_PIC1_REG_COMMAND, I86_PIC_OCW2_MASK_EOI)>>
        \o (IF handlers[n] # 0 THEN <<Call(handlers[n], n)>> ELSE << >>)

RegisterIrqHandler(n, Handler) ==
    /\ InterruptHandlers[n] # Handler
    /\ InterruptHandlers' = [InterruptHandlers EXCEPT ![n] = Handler]
    /\ UNCHANGED <<ports, InterruptNumber>>
    /\ UNCHANGED <<schedVars, heapVars, pfaVars, vmmVars, tssVars, fatVars, sysVars>>

\* IrqHandler for one interrupt; what the callback does is its own matter.
IrqHandler(n) ==
    /\ InterruptNumber' = n
    /\ ports' = IrqHandlerDoes(InterruptHandlers, n)
    /\ UNCHANGED InterruptHandlers
    /\ UNCHANGED <<schedVars, heapVars, pfaVars, vmmVars, tssVars, fatVars, sysVars>>

\* InterruptHandlers is in the .bss section: no callback at boot.
IrqInit ==
    /\ InterruptHandlers = [n \in IrqVectors |-> 0]
    /\ ports = << >>
    /\ InterruptNumber = 0

IrqNext ==
    \/ \E n \in {32, 33, 40, 47}, Handler \in Callbacks : RegisterIrqHandler(n, Handler)
    \/ \E n \in IrqVectors : IrqHandler(n)

\* ------------------------------------------------------------------- boot
\* The floppy disk the kernel boots from: the shell in one cluster and a
\* program in two. No file is open after InitFAT12.
InitialRootDirectory ==
    [i \in 1..RootEntries |->
        IF i = 1 THEN [FileName |-> SHELL_BIN, FirstCluster |-> 2, FileSize |-> 400]
        ELSE IF i = 2 THEN [FileName |-> PROG1_BIN, FirstCluster |-> 3, FileSize |-> 700]
        ELSE ZeroedEntry]

InitialFAT ==
    FATWrite(FATWrite(FATWrite(FATWrite(FATWrite(
        [i \in 1..((FatClusters \div 2) * 3) |-> 0], 0, 4080), 1, 4095), 2, 4095), 3, 4), 4, 4095)

InitialData ==
    [i \in 1..FatClusters |->
        IF i = 3 THEN <<72, 137>> ELSE IF i = 4 THEN <<85, 72>> ELSE IF i = 5 THEN <<195>>
        ELSE << >>]

FatBooted ==
    /\ ROOT_DIRECTORY_BUFFER = InitialRootDirectory
    /\ FAT_BUFFER = InitialFAT
    /\ FileDescriptorList = NewList
    /\ fileDescriptor = << >>
    /\ disk = InitialData
    /\ diskRootDirectory = InitialRootDirectory
    /\ diskFAT = InitialFAT
    /\ UserBuffer = << >>
    /\ heapOverflow = FALSE
    /\ ataStuck = FALSE
    /\ fileOps = << >>

\* StartUserModeTask has cleared the slot and polls it; no key was pressed
\* and no system call raised.
SysInit ==
    /\ Registers = [RDI |-> Register(0, 0)]
    /\ RAX = 0
    /\ called = "none"
    /\ sysCalls = 0
    /\ KEYBOARD_BUFFER = 0
    /\ USERMODE_PROGRAMM_TO_EXECUTE = << >>
    /\ loader = "strlen"
    /\ owed = << >>

IoInit == FatBooted /\ SysInit /\ IrqInit

\* The TSS and the stacks after CreateInitialTasks. InitGdt sets rsp0 to
\* 0xFFFF800001000000.
TssInit ==
    /\ tssEntry = [rsp0 |-> VirtualAddress(131072, 4096)]
    /\ KernelModeStack = KernelTaskStacks \o <<EXECUTABLE_KERNELMODE_STACK>>

TssNotStarted ==
    /\ tssEntry = [rsp0 |-> VirtualAddress(131072, 4096)]
    /\ KernelModeStack = << >>

vars == <<schedVars, heapVars, pfaVars, vmmVars, tssVars, ioVars>>

\* ------------------------------- malloc and free, interrupted by the timer
\* A kernel mode task runs with the interrupt flag set (RFLAGS 0x200), and
\* malloc and free do not clear it: the timer interrupt may come between
\* any two of their statements. Its handler runs MoveToNextTask with
\* interrupts disabled, whose AddEntryToList calls malloc for the new
\* ListEntry on the same heap.
SizeOfList == 16
SizeOfTask == 240
SizeOfListEntry == 32

\* The mallocs of CreateInitialTasks: the List, then a Task and its
\* ListEntry for each of the three tasks. The blocks the drivers and the
\* file system have allocated before are left out.
BootSizes == <<SizeOfList, SizeOfTask, SizeOfListEntry, SizeOfTask, SizeOfListEntry,
               SizeOfTask, SizeOfListEntry>>

RECURSIVE MallocAll(_, _, _)
MallocAll(H, sizes, ptrs) ==
    IF sizes = << >> THEN [mem |-> H.mem, end |-> H.end, ptrs |-> ptrs]
    ELSE LET r == malloc(H, Head(sizes))
         IN  MallocAll([mem |-> r.mem, end |-> r.end], Tail(sizes), Append(ptrs, r.ptr))

BootHeap == MallocAll(InitialHeap, BootSizes, << >>)

HeapBooted ==
    /\ heap = BootHeap.mem
    /\ HEAP_END_OFFSET = BootHeap.end
    /\ isHeapInitialized = 1
    /\ allocated = {}
    /\ inHeap = NotInHeap
    /\ listBlocks = [linked |-> <<BootHeap.ptrs[3], BootHeap.ptrs[5], BootHeap.ptrs[7]>>,
                     unlinked |-> {}]

\* The blocks the task holds at once.
MaxTaskBlocks == 1

\* The task that calls malloc and free is on the CPU.
TaskRuns == LoaderRuns

PreemptRest == <<schedVars, pfaVars, vmmVars, tssVars, ioVars>>

\* malloc up to the return of Find: the size is rounded and a block is
\* found. The heap of this specification always holds a block that fits.
MallocFind ==
    /\ TaskRuns
    /\ inHeap.pc = "none"
    /\ Cardinality(allocated) < MaxTaskBlocks
    /\ \E Size0 \in {SizeOfTask, SizeOfListEntry} :
         LET Size == RoundUp(Size0 + HEADER_SIZE)
             block == Find(heap, Size)
         IN  /\ block # NULL
             /\ inHeap' = [pc |-> "Allocate", Size |-> Size, block |-> block]
    /\ UNCHANGED <<heap, HEAP_END_OFFSET, isHeapInitialized, allocated, listBlocks>>
    /\ UNCHANGED PreemptRest

\* Allocate up to its test: oldSize is read and the branch is chosen.
AllocateTest ==
    /\ TaskRuns
    /\ inHeap.pc = "Allocate"
    /\ LET oldSize == HeapBlock(heap, inHeap.block).Size
       IN  inHeap' = [pc |-> "Write", Size |-> inHeap.Size, block |-> inHeap.block,
                      oldSize |-> oldSize,
                      split |-> oldSize - inHeap.Size >= HEADER_SIZE + 1]
    /\ UNCHANGED <<heap, HEAP_END_OFFSET, isHeapInitialized, allocated, listBlocks>>
    /\ UNCHANGED PreemptRest

\* The stores of Allocate, and malloc returns block->Payload.
AllocateWrite ==
    /\ TaskRuns
    /\ inHeap.pc = "Write"
    /\ LET Block == inHeap.block
           resized == StoreBlock(heap, Block, [InUse |-> 1, Size |-> inHeap.Size])
       IN  heap' = IF inHeap.split
                   THEN StoreBlock(resized, NextHeapBlock(resized, Block),
                                   [InUse |-> 0, Size |-> inHeap.oldSize - inHeap.Size])
                   ELSE StoreBlock(heap, Block, [HeapBlock(heap, Block) EXCEPT !.InUse = 1])
    /\ allocated' = allocated \cup {inHeap.block + HEADER_SIZE}
    /\ inHeap' = NotInHeap
    /\ UNCHANGED <<HEAP_END_OFFSET, isHeapInitialized, listBlocks>>
    /\ UNCHANGED PreemptRest

\* free up to the loop: the block is marked free.
FreeMarks ==
    /\ TaskRuns
    /\ inHeap.pc = "none"
    /\ \E ptr \in allocated :
         LET block == ptr - HEADER_SIZE
         IN  /\ heap' = StoreBlock(heap, block, [HeapBlock(heap, block) EXCEPT !.InUse = 0])
             /\ allocated' = allocated \ {ptr}
    /\ inHeap' = [pc |-> "Merge"]
    /\ UNCHANGED <<HEAP_END_OFFSET, isHeapInitialized, listBlocks>>
    /\ UNCHANGED PreemptRest

\* The loop of free: while (Merge() > 1) {}.
FreeMerges ==
    /\ TaskRuns
    /\ inHeap.pc = "Merge"
    /\ heap' = MergeWhileMoreThanOne(heap)
    /\ inHeap' = NotInHeap
    /\ UNCHANGED <<HEAP_END_OFFSET, isHeapInitialized, allocated, listBlocks>>
    /\ UNCHANGED PreemptRest

\* The timer tick with the heap: RemoveEntryFromList frees the old head
\* when the value in its third parameter is not 0, AddEntryToList calls
\* malloc(sizeof(ListEntry)).
TimerTick ==
    /\ listBlocks.linked # << >>
    /\ \E FreeMemory \in BOOLEAN :
         /\ MoveToNextTaskCall({FreeMemory})
         /\ LET oldHead == Head(listBlocks.linked)
                heap1 == IF FreeMemory THEN free(heap, oldHead) ELSE heap
                r == malloc([mem |-> heap1, end |-> HEAP_END_OFFSET], SizeOfListEntry)
            IN  /\ heap' = r.mem
                /\ HEAP_END_OFFSET' = r.end
                /\ listBlocks' =
                       [linked |-> Append(Tail(listBlocks.linked), r.ptr),
                        unlinked |-> IF FreeMemory THEN listBlocks.unlinked
                                     ELSE listBlocks.unlinked \cup {oldHead}]
    /\ UNCHANGED <<isHeapInitialized, allocated, inHeap>>

InitPreempt == observe = FALSE /\ SchedInit /\ HeapBooted /\ PfaBooted /\ TssInit /\ IoInit

NextPreempt ==
    \/ TimerTick
    \/ MallocFind
    \/ AllocateTest
    \/ AllocateWrite
    \/ FreeMarks
    \/ FreeMerges

SpecPreempt == InitPreempt /\ [][NextPreempt]_vars

\* The scheduler; the heap stays as InitHeap left it.
Init == observe = FALSE /\ SchedInit /\ HeapInit /\ PfaBooted /\ TssInit /\ IoInit

Next == SchedNext

Spec == Init /\ [][Next]_vars

\* The scheduler with an observer of windows of consecutive timer ticks.
InitFair == observe = TRUE /\ SchedInit /\ HeapInit /\ PfaBooted /\ TssInit /\ IoInit

NextFair == SchedNext \/ StartWindow

SpecFair == InitFair /\ [][NextFair]_vars

\* The heap and its callers; no task has been dispatched yet.
InitHeapSpec == observe = FALSE /\ SchedInit /\ HeapInit /\ PfaBooted /\ TssInit /\ IoInit

NextHeap == HeapNext

SpecHeap == InitHeapSpec /\ [][NextHeap]_vars

\* The physical memory manager from the end of InitPhysicalMemoryManager on.
InitPfa ==
    SchedNotStarted /\ HeapNotInitialized /\ PfaInit /\ VmmNotInitialized /\ TssNotStarted /\ IoInit

NextPfa == PfaNext

SpecPfa == InitPfa /\ [][NextPfa]_vars

\* The virtual memory manager: programs are started and tasks take page
\* faults.
BootMachines ==
    { [map |-> CHOOSE map \in MemoryMaps : Len(map) = 4 /\ map[2].Type = 2,
       KernelSize |-> 150000],
      [map |-> SmallMemoryMap, KernelSize |-> 158000] }

InitVmm ==
    /\ observe = FALSE
    /\ SchedInit
    /\ HeapInit
    /\ \E machine \in BootMachines : \E Temporary \in TemporaryPages :
         MachineBooted(machine.map, machine.KernelSize, Temporary)
    /\ TssInit
    /\ IoInit

NextVmm == ExecuteUserModeProgram \/ IsrHandlerPageFault

SpecVmm == InitVmm /\ [][NextVmm]_vars

\* The virtual memory manager where tasks also touch the temporary page,
\* which the page fault handler maps like every other address.
InitMap == InitVmm

NextMap ==
    \/ ExecuteUserModeProgram
    \/ IsrHandlerPageFaultAt(FaultAddresses \cup {TEMPORARY_VIRTUAL_PAGE})

SpecMap == InitMap /\ [][NextMap]_vars

\* The timer ticks of the first seconds, for machines that are switched on
\* two seconds before a minute, an hour, a day and a month end.
MaxDateTicks == 500

BootDates ==
    {[Year |-> 2023, Month |-> m, Day |-> d, Hour |-> h, Minute |-> mi, Second |-> 58] :
        m \in {2, 4, 12}, d \in {15, 28, 30, 31}, h \in {11, 23}, mi \in {30, 59}}

ValidDate(date) ==
    /\ date.Second \in 0..59
    /\ date.Minute \in 0..59
    /\ date.Hour \in 0..23
    /\ date.Month \in 1..12
    /\ date.Day \in 1..NumberOfDaysPerMonth[date.Month]

InitDate ==
    /\ observe = FALSE
    /\ SchedInitOn({date \in BootDates : ValidDate(date)})
    /\ HeapInit /\ PfaBooted /\ TssInit /\ IoInit

NextDate == MoveToNextTaskWithin(BOOLEAN, MaxDateTicks) /\ UNCHANGED heapVars

SpecDate == InitDate /\ [][NextDate]_vars

\* The scheduler with the stores and the exceptions of the programs.
InitIsr == Init

NextIsr == SchedNext \/ IsrHandlerHalt \/ UserModeWrite

SpecIsr == InitIsr /\ [][NextIsr]_vars


\* The system calls of the programs, with the scheduler.
InitSys == Init

NextSys == MoveToNextTask \/ \E RDI \in SysCallNumbers : SysCallHandlerC(RDI)

SpecSys == InitSys /\ [][NextSys]_vars

\* The programs ask for programs to be started and StartUserModeTask starts
\* them.
InitExec == Init

NextExec ==
    \/ MoveToNextTask
    \/ SysCallHandlerC(Register(0, SYSCALL_EXECUTE))
    \/ StartUserModeTaskStrlen
    \/ StartUserModeTaskExecute
    \/ StartUserModeTaskStrcpy

SpecExec == InitExec /\ [][NextExec]_vars

\* The kernel tasks create, open, read, write and delete files.
InitFat == Init

\* The timer tick that puts the first task on the CPU: the calls are made
\* in the first time slice of a kernel mode task.
FirstDispatch == counter = 0 /\ MoveToNextTask

NextFat == FirstDispatch \/ FatNext

SpecFat == InitFat /\ [][NextFat]_vars

\* Programs that the loader has started, each with the PID 10, and the
\* shell open, seek and close files.
InitFd == Init

\* The programs are started before the first timer tick of the run.
StartedAtBoot == counter = 0 /\ ExecuteUserModeProgram

NextFd ==
    \/ MoveToNextTask
    \/ StartedAtBoot
    \/ \E n \in {SYSCALL_OPENFILE, SYSCALL_SEEKFILE, SYSCALL_CLOSEFILE} :
          SysCallHandlerC(Register(0, n))

SpecFd == InitFd /\ [][NextFd]_vars

\* The shell (PID 4) and a program (PID 10) open SHELL.BIN, a file of less
\* than a sector, seek to its beginning and write sectors of 512 bytes.
\* Memory that is read without having been written holds 0 here.
MaxSharedCalls == 5

OneSector == [i \in 1..BYTES_PER_SECTOR |-> 88]

SharedInputs ==
    [names |-> {SHELL_BIN},
     handles |-> {HandleOf(SHELL_BIN, 4), HandleOf(SHELL_BIN, USER_PID)},
     offsets |-> {0}, lengths |-> {13},
     buffers |-> {OneSector}, uninit |-> {0}, max |-> MaxSharedCalls]

InitShared == Init

\* The time slices of the run: the two kernel tasks, the shell and the
\* program get the CPU once.
TimeSlices == 4

FirstTimeSlices == counter < TimeSlices /\ MoveToNextTask

NextShared ==
    \/ FirstTimeSlices
    \/ StartedAtBoot
    \/ \E n \in {SYSCALL_OPENFILE, SYSCALL_SEEKFILE, SYSCALL_WRITEFILE} :
          SysCallWith(Register(0, n), SharedInputs)

SpecShared == InitShared /\ [][NextShared]_vars

\* The interrupts of the two controllers and their callbacks.
InitIrq == Init

NextIrq == IrqNext

SpecIrq == InitIrq /\ [][NextIrq]_vars


\* ----------------------------------------------------------------------
\* Properties of the scheduler
\* ----------------------------------------------------------------------
\* The positions of the TaskList whose task has state Running.
RunningPositions == {i \in 1..Len(ListTasks) : task[ListTasks[i]].Status = TASK_STATUS_RUNNING}

Rotate(seq) == IF seq = << >> THEN seq ELSE Tail(seq) \o <<Head(seq)>>

\* seq without its i-th element.
Without(seq, i) == [j \in 1..(Len(seq) - 1) |-> IF j < i THEN seq[j] ELSE seq[j + 1]]

\* A task that was created and is no longer in the TaskList.
Terminated(t) == t \in 1..Len(task) /\ ~InList(t)

IsContextSwitch == counter' = counter + 1
IsCreate == Len(task') = Len(task) + 1
IsTerminate == TaskList'.Count = TaskList.Count - 1

\* C1 as stated: in every reachable state exactly one task of the task list
\* has state Running.
C1_ExactlyOneRunning == Cardinality(RunningPositions) = 1

\* C1 amended: while the task that the last context switch dispatched is in
\* the task list, exactly one task of the list is Running, and it is that
\* task, at the head; before the first context switch and after the running
\* task was terminated, until the next context switch, no task of the list
\* is Running.
C1_RunningIsDispatchedHead ==
    IF current # NULL /\ InList(current)
    THEN RunningPositions = {1} /\ ListTasks[1] = current
    ELSE RunningPositions = {}

\* A context switch has dispatched a task out of several, and it is Running.
C1_Witness ==
    /\ counter >= 2
    /\ Len(ListTasks) >= 3
    /\ InList(current)
    /\ task[current].Status = TASK_STATUS_RUNNING

C3_FairShare ==
    \A i \in 1..Len(ListTasks) :
        LET K == Len(ListTasks)
            N == winTicks
            dispatches == task[ListTasks[i]].ContextSwitches - winBase[ListTasks[i]]
        IN  dispatches \in {N \div K, (N + K - 1) \div K}

\* A window of four ticks over three tasks: one of them was dispatched twice.
C3_Witness ==
    /\ Len(ListTasks) = 3
    /\ winTicks = 4
    /\ \E i \in 1..3 : task[ListTasks[i]].ContextSwitches - winBase[ListTasks[i]] = 2
    /\ \E i \in 1..3 : task[ListTasks[i]].ContextSwitches - winBase[ListTasks[i]] = 1

\* C4: TerminateTask(PID) unlinks the first entry that carries the PID, all
\* other entries keep their order, and a terminated task never comes back
\* into the list and is never made Running by a later context switch.
C4_TerminateRemoves ==
    [][/\ IsTerminate =>
            \E i \in 1..Len(ListTasks) :
                /\ ListTasks' = Without(ListTasks, i)
                /\ \A j \in 1..(i - 1) : task[ListTasks[j]].PID # task[ListTasks[i]].PID
       /\ \A t \in 1..Len(task) :
            Terminated(t) =>
                /\ Terminated(t)'
                /\ task'[t].Status = TASK_STATUS_RUNNING => task[t].Status = TASK_STATUS_RUNNING]_vars

\* A task that terminated while it was Running, and a later context switch
\* that dispatched another task.
C4_Witness ==
    \E t \in 1..Len(task) :
        /\ Terminated(t)
        /\ task[t].Status = TASK_STATUS_RUNNING
        /\ current # t
        /\ InList(current)

\* C5: when the running task has terminated itself, the next task that is
\* dispatched is the one that followed it in the task list (the head of the
\* list after the removal).
C5_NextTaskAfterTermination ==
    [][(/\ IsContextSwitch
        /\ current # NULL
        /\ Terminated(current)
        /\ task[current].Ring = 3
        /\ ListTasks # << >>) => current' = ListTasks[1]]_vars

\* ----------------------------------------------------------------------
\* Properties of the heap
\* ----------------------------------------------------------------------
RECURSIVE SumOfSizes(_, _)
SumOfSizes(mem, blocks) ==
    IF blocks = << >> THEN 0
    ELSE HeapBlock(mem, Head(blocks)).Size + SumOfSizes(mem, Tail(blocks))

\* Two blocks next to each other in the chain are both free.
AdjacentFreeBlocks(mem) ==
    \E i \in 1..(Len(Chain(mem)) - 1) :
        /\ HeapBlock(mem, Chain(mem)[i]).InUse = 0
        /\ HeapBlock(mem, Chain(mem)[i + 1]).InUse = 0

IsFree == allocated' # allocated /\ allocated' \subseteq allocated

\* C6: after any sequence of malloc and free calls, growth of the heap
\* included, the sizes of the blocks of the chain that starts at
\* HEAP_START_OFFSET add up to HEAP_END_OFFSET - HEAP_START_OFFSET.
C6_ChainCoversHeap ==
    SumOfSizes(heap, Chain(heap)) = HEAP_END_OFFSET - HEAP_START_OFFSET

\* The heap has grown, blocks were split, and one block was handed out whole
\* with four spare bytes.
C6_Witness ==
    /\ HEAP_END_OFFSET = HEAP_START_OFFSET + INITIAL_HEAP_SIZE + HEAP_GROWTH
    /\ Cardinality(allocated) >= 2
    /\ Len(Chain(heap)) >= 4
    /\ \E p \in allocated : HeapBlock(heap, p - HEADER_SIZE).Size = 2560

\* C7: when a call of free has returned, no two blocks next to each other
\* in the chain are both free.
C7_NoAdjacentFreeAfterFree ==
    [][IsFree => ~AdjacentFreeBlocks(heap')]_vars

\* C8: once every pointer that malloc returned has been freed, the heap is
\* one free block of HEAP_END_OFFSET - HEAP_START_OFFSET bytes.
C8_AllFreedIsOneBlock ==
    allocated = {} =>
        /\ Chain(heap) = <<HEAP_START_OFFSET>>
        /\ heap[HEAP_START_OFFSET] =
             [InUse |-> 0, Size |-> HEAP_END_OFFSET - HEAP_START_OFFSET]

\* Blocks were allocated, the heap grew for them, and all were freed again.
C8_Witness ==
    /\ allocated = {}
    /\ HEAP_END_OFFSET > HEAP_START_OFFSET + INITIAL_HEAP_SIZE
    /\ Chain(heap) = <<HEAP_START_OFFSET>>

\* ----------------------------------------------------------------------
\* Properties of the physical memory manager
\* ----------------------------------------------------------------------
\* The bit of a page frame number is set in the bitmap mask of its region.
BitIsSet(regions, PageFrameNumber) ==
    \E k \in 1..Len(regions) :
        PageFrameNumber - (regions[k].PhysicalMemoryStartAddress \div PAGE_SIZE)
            \in regions[k].Bitmap

IsAllocation == bib'.AvailablePageFrames = bib.AvailablePageFrames - 1

\* C9: in every region the count of free page frames plus the number of
\* bits that are set in the bitmap mask is the number of page frames of the
\* region.
C9_FreePlusUsedIsTotal ==
    \A k \in 1..Len(memLayout) :
        memLayout[k].FreePageFrames + Cardinality(memLayout[k].Bitmap)
            = memLayout[k].AvailablePageFrames

\* C10: the page frame number that AllocatePageFrame returns is one whose
\* bit was clear before the call, the frames that were marked at
\* initialisation included, and whose bit is set after it; a call that finds
\* no frame changes no bitmap mask.
C10_AllocatesOnlyClearBits ==
    [][/\ IsAllocation =>
            /\ pfn' # NO_PAGE_FRAME
            /\ ~BitIsSet(memLayout, pfn')
            /\ BitIsSet(memLayout', pfn')
       /\ (pfn' = NO_PAGE_FRAME /\ pfn # NO_PAGE_FRAME) => memLayout' = memLayout]_vars

\* A frame was released and the next allocation took it again: the frame
\* returned last is the newest in the tracked list and lies below an older one.
C10_Witness ==
    /\ Released >= 1
    /\ pfn # NO_PAGE_FRAME
    /\ BitIsSet(memLayout, pfn)
    /\ tracked.List.Count >= 2
    /\ tracked.Entry[tracked.List.Count].Key = pfn
    /\ tracked.Entry[1].Key > pfn

\* The page frames of a region that are free: those whose bit in the bitmap
\* mask is clear.
FreeFrames(descriptor) == (0..(descriptor.AvailablePageFrames - 1)) \ descriptor.Bitmap

HasFreeFrame(regions) == \E k \in 1..Len(regions) : FreeFrames(regions[k]) # {}

\* The lowest free page frame of the first region that has one.
LowestFreeFrame(regions) ==
    LET k == CHOOSE k1 \in 1..Len(regions) :
                 /\ FreeFrames(regions[k1]) # {}
                 /\ \A k2 \in 1..(k1 - 1) : FreeFrames(regions[k2]) = {}
        frame == CHOOSE f1 \in FreeFrames(regions[k]) :
                     \A f2 \in FreeFrames(regions[k]) : f1 <= f2
    IN  frame + (regions[k].PhysicalMemoryStartAddress \div PAGE_SIZE)

\* A call of AllocatePageFrame that returns -1 (after a call that did not).
IsOutOfMemory == pfn # NO_PAGE_FRAME /\ pfn' = NO_PAGE_FRAME

\* C11: AllocatePageFrame returns -1 only when no region has a free page
\* frame, and then no bitmap mask and no counter changes; a call that
\* allocates returns the number of a page frame of a region.
C11_SentinelOnlyWhenNoFreeFrame ==
    [][/\ IsOutOfMemory =>
            /\ ~HasFreeFrame(memLayout)
            /\ UNCHANGED <<memLayout, bib>>
       /\ IsAllocation =>
            \E k \in 1..Len(memLayout) :
                pfn' - (memLayout[k].PhysicalMemoryStartAddress \div PAGE_SIZE)
                    \in 0..(memLayout[k].AvailablePageFrames - 1)]_vars

\* C12: AllocatePageFrame is first-fit: it returns the lowest free page
\* frame of the first region, in the order of the memory layout, that has
\* a free page frame.
C12_FirstFit ==
    [][IsAllocation => pfn' = LowestFreeFrame(memLayout)]_vars

\* C13: ReleasePageFrame of a page frame number that has no entry in the
\* tracked list changes nothing, and the kernel keeps running: no step of
\* the physical memory manager leaves the kernel following a pointer that
\* it read from the interrupt vectors at address 0.
C13_ReleaseOfUntrackedIsNoOp ==
    [][~wild']_vars


\* ------------------------------------------------------------ C14 .. C20
\* A page frame the physical memory manager has handed out.
IsAllocated(regions, PageFrameNumber) ==
    \E i \in 1..Len(regions) :
        LET first == regions[i].PhysicalMemoryStartAddress \div PAGE_SIZE
        IN  /\ PageFrameNumber >= first
            /\ PageFrameNumber - first \in regions[i].Bitmap

\* The path of the address of the last page fault, in the address space in
\* which it was taken: all four entries present, writable, user.
LastFaultIsMapped == UserMayWrite(pageTables, cr3, cr2)

IsPageFault == pageFaults' # pageFaults

\* C14: after HandlePageFault(V), with page frames available, the four
\* entries of the path of V are present with the writable and the user bit;
\* an entry that was present keeps its frame, and every entry that was
\* missing has a page frame of its own that was free before.
C14_PageFaultBuildsPath ==
    [][~lost' =>
         /\ LastFaultIsMapped'
         /\ IsPageFault =>
              LET old == PathOf(pageTables, cr3', cr2')
                  new == PathOf(pageTables', cr3', cr2')
              IN  \A l \in 1..4 :
                    /\ old[l].Present = 1 => new[l].Frame = old[l].Frame
                    /\ old[l].Present = 0 =>
                         /\ ~IsAllocated(memLayout, new[l].Frame)
                         /\ IsAllocated(memLayout', new[l].Frame)
                         /\ \A k \in 1..4 : k # l => new[k].Frame # new[l].Frame]_vars

\* C15: when AllocatePageFrame has no page frame for a page fault, no entry
\* of a page table is built from the -1 it returns, and the kernel halts.
C15_ExhaustionIsFatal ==
    /\ \A f \in DOMAIN pageTables.tables : \A i \in DOMAIN pageTables.tables[f] :
         pageTables.tables[f][i].Frame # FrameField(NO_PAGE_FRAME)
    /\ lost => halted

\* The page frames of the PML4 tables the kernel has created: the PML4 of
\* InitVirtualMemoryManager, the clone of every task, and the clone the
\* program loader is working with.
AddressSpaces ==
    {pml4Address \div SMALL_PAGE_SIZE}
        \cup {CR3[t] \div SMALL_PAGE_SIZE : t \in 1..Len(CR3)}
        \cup (IF faultLoop THEN {cr3} ELSE {})

\* C16: in every address space entry 511 of the PML4 is present and holds
\* the page frame of that PML4.
C16_RecursiveEntryIsOwnFrame ==
    ~lost =>
        \A root \in AddressSpaces :
            /\ EntryAt(pageTables, root, PT_ENTRIES - 1).Present = 1
            /\ EntryAt(pageTables, root, PT_ENTRIES - 1).Frame = root

\* The entries of a PML4 that belong to the kernel: the identity mapping
\* and the higher half without the recursive entry.
KernelSlots == {0} \cup (PT_ENTRIES \div 2 .. PT_ENTRIES - 2)

\* C17: every PML4 holds the entries of the kernel's PML4 in the slot of
\* the identity mapping and in every slot of the higher half.
C17_KernelSlotsAreShared ==
    ~lost =>
        \A root \in AddressSpaces : \A i \in KernelSlots :
            EntryAt(pageTables, root, i)
                = EntryAt(pageTables, pml4Address \div SMALL_PAGE_SIZE, i)

\* C18: the base address of a program is mapped in the address space of its
\* task, to a page frame to which no other address space maps that
\* address.
C18_ProgramFramesArePrivate ==
    ~lost =>
        \A t \in 1..Len(task) :
            task[t].Ring = 3 =>
                LET root == CR3[t] \div SMALL_PAGE_SIZE
                IN  /\ IsMapped(pageTables, root, EXECUTABLE_BASE_ADDRESS)
                    /\ \A other \in AddressSpaces \ {root} :
                         IsMapped(pageTables, other, EXECUTABLE_BASE_ADDRESS) =>
                             FrameOf(pageTables, other, EXECUTABLE_BASE_ADDRESS)
                                 # FrameOf(pageTables, root, EXECUTABLE_BASE_ADDRESS)

\* A program started after boot runs beside the shell, each with the base
\* address mapped in its own address space, and both have taken a page
\* fault in the page behind it.
C18_Witness ==
    /\ ~lost
    /\ Len(task) > InitialTasks
    /\ CR3[Len(task)] # CR3[InitialTasks]
    /\ \A t \in InitialTasks..Len(task) :
         /\ IsMapped(pageTables, CR3[t] \div SMALL_PAGE_SIZE, EXECUTABLE_BASE_ADDRESS)
         /\ IsMapped(pageTables, CR3[t] \div SMALL_PAGE_SIZE,
                     VirtualAddress(EXECUTABLE_BASE_ADDRESS.hi, 1))

\* C19: no store of a program to an address of the higher half of the
\* address space, which belongs to the kernel, goes through.
C19_NoUserWriteToKernelHalf == \A V \in userWrites : ~InHigherHalf(V)

IsGeneralProtectionFault == ~halted /\ halted'

\* C20: a general protection fault of a program removes its task from the
\* task list, and the kernel goes on scheduling the other tasks.
C20_FaultTerminatesOnlyTheTask ==
    [][IsGeneralProtectionFault => ~InList(current)' /\ ~halted']_vars

\* C30: after every context switch the rsp0 field of the TSS is the kernel
\* mode stack of the task that is now the head of the task list, and that
\* task is Running.
C30_Rsp0IsStackOfNewHead ==
    [][counter' = counter + 1 =>
          /\ tssEntry'.rsp0 = KernelModeStack'[ListTasks'[1]]
          /\ task'[ListTasks'[1]].Status = TASK_STATUS_RUNNING]_vars

\* A switch has put a user mode program on the CPU and rsp0 is its stack.
C30_Witness ==
    /\ counter >= 2
    /\ current # NULL
    /\ ListTasks[1] = current
    /\ task[current].Ring = 3
    /\ tssEntry.rsp0 = EXECUTABLE_KERNELMODE_STACK

SlaveEOI == outb(I86_PIC2_REG_COMMAND, I86_PIC_OCW2_MASK_EOI)
MasterEOI == outb(I86_PIC1_REG_COMMAND, I86_PIC_OCW2_MASK_EOI)
PositionsOf(what) == {i \in 1..Len(ports) : ports[i] = what}
CallPositions == {i \in 1..Len(ports) : ports[i].op = "call"}

\* C29: for every hardware interrupt the End-Of-Interrupt goes to the slave
\* controller exactly when the vector is 40 or higher and always, once, to
\* the master, the slave before the master, and the registered handler, if
\* there is one, is called only after both.
C29_EoiBeforeHandler ==
    InterruptNumber # 0 =>
        /\ Cardinality(PositionsOf(SlaveEOI)) = (IF InterruptNumber >= 40 THEN 1 ELSE 0)
        /\ Cardinality(PositionsOf(MasterEOI)) = 1
        /\ \A i \in PositionsOf(SlaveEOI), j \in PositionsOf(MasterEOI) : i < j
        /\ \A i \in CallPositions :
              /\ ports[i].a \in Callbacks
              /\ ports[i].b = InterruptNumber
              /\ \A j \in PositionsOf(SlaveEOI) \cup PositionsOf(MasterEOI) : j < i
        /\ Cardinality(CallPositions) <= 1

\* An interrupt of the slave controller with a registered handler: both
\* controllers got the End-Of-Interrupt and then the handler ran.
C29_Witness ==
    /\ InterruptNumber = 47
    /\ ports = <<SlaveEOI, MasterEOI, Call(2, 47)>>

IsSysCall == sysCalls' = sysCalls + 1

\* The branch a table of branches, the entry n for the number n, has for a
\* number.
BranchIn(table, n) == IF n \in 1..Len(table) THEN table[n] ELSE "return 0"

\* A system call that has changed nothing in the kernel and returned 0.
ReturnsZeroAndChangesNothing ==
    /\ RAX' = 0
    /\ UNCHANGED <<schedVars, heapVars, pfaVars, vmmVars, tssVars, fatVars, irqVars>>
    /\ UNCHANGED <<KEYBOARD_BUFFER, USERMODE_PROGRAMM_TO_EXECUTE, loader, owed>>

IsCallWithUnknownHandle ==
    /\ IsSysCall
    /\ called' \in {"ReadFile", "WriteFile", "SeekFile", "EndOfFile", "CloseFile"}
    /\ GetEntryFromList(FileDescriptorList, Registers'.RSI) = NULL

\* C22: a read, write, seek, eof or close request on a file handle for
\* which no descriptor exists returns 0 and leaves the descriptor list, the
\* FAT and the root directory in memory and the disk unchanged, and the
\* kernel neither faults nor halts.
C22_UnknownHandleIsHarmless ==
    [][IsCallWithUnknownHandle =>
         /\ RAX' = 0
         /\ UNCHANGED <<FileDescriptorList, fileDescriptor, FAT_BUFFER, ROOT_DIRECTORY_BUFFER,
                        disk, diskRootDirectory, diskFAT>>
         /\ ~wild'
         /\ ~halted']_vars

\* A file of the name is in the root directory.
ExistsInRootDirectory(name) ==
    \E i \in 1..Len(ROOT_DIRECTORY_BUFFER) : ROOT_DIRECTORY_BUFFER[i].FileName = name

IsExecuteSysCall == IsSysCall /\ called' = "USERMODE_PROGRAMM_TO_EXECUTE"

\* C23: the execute system call creates no task and no address space: for
\* a name that is in the root directory it copies the name into the
\* pending-command slot and returns 1, for any other name it returns 0 and
\* leaves the slot as it is; the task list is unchanged in both cases.
C23_ExecuteOnlyFillsSlot ==
    [][IsExecuteSysCall =>
         /\ IF ExistsInRootDirectory(Registers'.RSI)
            THEN USERMODE_PROGRAMM_TO_EXECUTE' = Registers'.RSI /\ RAX' = 1
            ELSE UNCHANGED USERMODE_PROGRAMM_TO_EXECUTE /\ RAX' = 0
         /\ UNCHANGED <<schedVars, heapVars, pfaVars, vmmVars, tssVars>>]_vars

\* An execute system call for a program of the disk has filled the slot,
\* and the tasks are those CreateInitialTasks has made.
C23_Witness ==
    /\ called = "USERMODE_PROGRAMM_TO_EXECUTE"
    /\ RAX = 1
    /\ USERMODE_PROGRAMM_TO_EXECUTE = PROG1_BIN
    /\ Len(task) = InitialTasks

\* C24: every execute request the system call has accepted is followed by
\* StartUserModeTask creating a user task for the program and clearing the
\* slot. Stated for the states in which StartUserModeTask has nothing to
\* do, the slot empty and the loop at its test: no accepted request is
\* then without its task (owed holds the accepted requests for which
\* ExecuteUserModeProgram has not created a task).
C24_AcceptedRequestIsServed ==
    (loader = "strlen" /\ USERMODE_PROGRAMM_TO_EXECUTE = << >>) => owed = << >>

\* The sectors of the clusters of a chain, one after the other.
RECURSIVE SectorsOf(_, _)
SectorsOf(data, chain) ==
    IF chain = << >> THEN << >>
    ELSE ReadSectors(data, Head(chain) + DATA_AREA_BEGINNING) \o SectorsOf(data, Tail(chain))

\* What the disk holds for the file of the name: the sectors of its chain
\* as the root directory and the FAT on the disk give it.
FileBytesOnDisk(name) ==
    LET rootEntry == FindRootDirectoryEntry(diskRootDirectory, name)
    IN  SectorsOf(disk, FATChain(diskFAT, RootEntryAt(diskRootDirectory, rootEntry).FirstCluster,
                                 FatClusters))

\* C padded with zeros to the sector size.
PaddedToSector(C) ==
    Padded(C, ((Len(C) + BYTES_PER_SECTOR - 1) \div BYTES_PER_SECTOR) * BYTES_PER_SECTOR)

\* The kernel has created the file with a content, opened it and read as
\* many bytes as the content has, and nothing else since the boot.
CreatedOpenedAndRead ==
    /\ Len(fileOps) = 3
    /\ fileOps[1].op = "CreateFile"
    /\ fileOps[2].op = "OpenFile" /\ fileOps[2].name = fileOps[1].name
    /\ fileOps[3].op = "ReadFile" /\ fileOps[3].handle = fileOps[2].ret
    /\ fileOps[3].n = Len(fileOps[1].bytes)

\* C25: for any content C, creating a file with C, opening it and reading
\* its full size from offset 0 returns exactly C, and the data of the file
\* on the disk is C padded with zeros to the sector size.
C25_CreateOpenReadRoundTrip ==
    CreatedOpenedAndRead =>
        /\ UserBuffer = fileOps[1].bytes
        /\ FileBytesOnDisk(fileOps[1].name) = PaddedToSector(fileOps[1].bytes)

\* The last call of the file system in the history after the step.
LastFileOp == fileOps'[Len(fileOps')]

\* The descriptor a handle resolves to, the root directory entry of its
\* file and the size that entry gives, before the step.
DescriptorFor(FileHandle) == fileDescriptor[DescriptorOf(FileSystem, FileHandle, 0)]
RootEntryFor(FileHandle) ==
    FindRootDirectoryEntry(ROOT_DIRECTORY_BUFFER,
        DescriptorFor(FileHandle).FileName \o DescriptorFor(FileHandle).Extension)
FileSizeFor(FileHandle) ==
    RootEntryAt(ROOT_DIRECTORY_BUFFER, RootEntryFor(FileHandle)).FileSize

\* A WriteFile of the kernel through an open handle whose offset a SeekFile
\* has put behind the end of the file.
IsWriteBehindEnd ==
    /\ Len(fileOps') = Len(fileOps) + 1
    /\ LastFileOp.op = "WriteFile"
    /\ GetEntryFromList(FileDescriptorList, LastFileOp.handle) # NULL
    /\ RootEntryFor(LastFileOp.handle) # NoEntry
    /\ DescriptorFor(LastFileOp.handle).CurrentFileOffset > FileSizeFor(LastFileOp.handle)

\* What a ReadFile gives for n bytes at the offset a of the file of a root
\* directory entry, n at most a sector.
ReadBack(F, rootEntry, a, n) == ReadFrom(F, rootEntry, a, n).bytes

Max(a, b) == IF a >= b THEN a ELSE b
Min(a, b) == IF a <= b THEN a ELSE b

\* Reads of the file return zeros for the bytes from..to-1, sector by
\* sector.
ReadsZeros(F, rootEntry, from, to) ==
    \A k \in (from \div BYTES_PER_SECTOR)..((to - 1) \div BYTES_PER_SECTOR) :
        LET a == Max(from, k * BYTES_PER_SECTOR)
            b == Min(to, (k + 1) * BYTES_PER_SECTOR)
        IN  \A i \in 1..(b - a) : ReadBack(F, rootEntry, a, b - a)[i] = 0

Clusters == 2..(((Len(FAT_BUFFER) * 2) \div 3) - 1)

\* What DeleteFile has to have done in a step for the name of a file.
Deleted(name) ==
    LET rootEntry == FindRootDirectoryEntry(ROOT_DIRECTORY_BUFFER, name)
        chain == FATChain(FAT_BUFFER, RootEntryAt(ROOT_DIRECTORY_BUFFER, rootEntry).FirstCluster,
                          FatClusters)
        InChain(c) == \E i \in 1..Len(chain) : chain[i] = c
    IN  IF rootEntry = NoEntry
        THEN UNCHANGED <<ROOT_DIRECTORY_BUFFER, FAT_BUFFER, disk, diskRootDirectory, diskFAT,
                         FileDescriptorList, fileDescriptor>>
        ELSE /\ \A c \in Clusters :
                  IF InChain(c)
                  THEN /\ FATRead(FAT_BUFFER', c) = 0
                       /\ ReadSectors(disk', c + DATA_AREA_BEGINNING) = ZeroSector
                  ELSE /\ FATRead(FAT_BUFFER', c) = FATRead(FAT_BUFFER, c)
                       /\ ReadSectors(disk', c + DATA_AREA_BEGINNING)
                              = ReadSectors(disk, c + DATA_AREA_BEGINNING)
             /\ RootEntryAt(ROOT_DIRECTORY_BUFFER', rootEntry) = ZeroedEntry
             /\ FindRootDirectoryEntry(ROOT_DIRECTORY_BUFFER', name) = NoEntry
             /\ \A i \in 0..(Len(ROOT_DIRECTORY_BUFFER) - 1) :
                  i # rootEntry =>
                      RootEntryAt(ROOT_DIRECTORY_BUFFER', i) = RootEntryAt(ROOT_DIRECTORY_BUFFER, i)
             /\ diskRootDirectory' = ROOT_DIRECTORY_BUFFER'
             /\ diskFAT' = FAT_BUFFER'

IsDeleteSysCall == IsSysCall /\ called' = "DeleteFile"

IsOpen(d) ==
    \E a \in Addr : FileDescriptorList.Entry[a].Used /\ FileDescriptorList.Entry[a].Payload = d

\* C28: when the same file is open in two different tasks at the same
\* time, the two opens have given different handles, and the two handles
\* resolve to different descriptors, so that nothing done through one
\* handle reaches the descriptor of the other.
C28_IndependentDescriptors ==
    \A i, j \in 1..Len(fileOps) :
        (/\ i < j
         /\ fileOps[i].op = "OpenFile" /\ fileOps[j].op = "OpenFile"
         /\ fileOps[i].name = fileOps[j].name
         /\ fileOps[i].task # fileOps[j].task
         /\ IsOpen(fileOps[i].n) /\ IsOpen(fileOps[j].n))
        => /\ fileOps[i].handle # fileOps[j].handle
           /\ DescriptorOf(FileSystem, fileOps[i].handle, 0)
                  # DescriptorOf(FileSystem, fileOps[j].handle, 0)

\* C31: no two entries of the TaskList carry the same PID, whatever tasks
\* have been created (the programs of the execute path included) and
\* terminated.
C31_PIDsAreUnique ==
    \A i, j \in 1..Len(ListTasks) :
        i # j => task[ListTasks[i]].PID # task[ListTasks[j]].PID

\* The step is a malloc: one more pointer is handed out.
IsMalloc == \E ptr \in allocated' : allocated' = allocated \cup {ptr} /\ ptr \notin allocated

NewPointer == CHOOSE ptr \in allocated' : ptr \notin allocated

\* n + 4 rounded up to a multiple of 4.
SizeWithHeader(n) == CHOOSE s \in (n + 4)..(n + 7) : s % 4 = 0

\* The free blocks of at least s bytes on the chain of the heap.
FreeBlocksOfAtLeast(mem, s) ==
    {Chain(mem)[i] : i \in {k \in 1..Len(Chain(mem)) :
                                /\ HeapBlock(mem, Chain(mem)[k]).InUse = 0
                                /\ HeapBlock(mem, Chain(mem)[k]).Size >= s}}

\* The heap malloc searches: the heap as it is when it holds a block that
\* is free and large enough, the heap grown by a page when not.
SearchedHeap(s) ==
    IF FreeBlocksOfAtLeast(heap, s) # {} THEN heap
    ELSE Merge(StoreBlock(heap, GetLastHeapBlock(heap),
                          [InUse |-> 0, Size |-> HEAP_GROWTH])).mem

\* What the claim says of a malloc(n) that has searched the heap mem.
TakesLowestFreeBlock(mem, n) ==
    LET s == SizeWithHeader(n)
        fits == FreeBlocksOfAtLeast(mem, s)
        block == CHOOSE b \in fits : \A c \in fits : b <= c
        left == HeapBlock(mem, block).Size - s
    IN  /\ fits # {}
        /\ NewPointer = block + 4
        /\ IF left >= 5
           THEN /\ HeapBlock(heap', block) = [InUse |-> 1, Size |-> s]
                /\ HeapBlock(heap', block + s) = [InUse |-> 0, Size |-> left]
           ELSE HeapBlock(heap', block) = [InUse |-> 1, Size |-> HeapBlock(mem, block).Size]

ListEntryBlocks ==
    {listBlocks.linked[i] : i \in 1..Len(listBlocks.linked)} \cup listBlocks.unlinked

\* C33: with timer ticks between the statements of malloc and free of a
\* task, and MoveToNextTask allocating its ListEntry from the same heap,
\* the blocks of the chain add up to the heap and no block belongs to the
\* task and to the TaskList at once.
C33_HeapSurvivesPreemption ==
    /\ SumOfSizes(heap, Chain(heap)) = HEAP_END_OFFSET - HEAP_START_OFFSET
    /\ allocated \cap ListEntryBlocks = {}

\* The step is a ReadFile or a WriteFile of the kernel for at most a sector.
IsReadOrWriteOfASector ==
    /\ Len(fileOps') = Len(fileOps) + 1
    /\ LastFileOp.op \in {"ReadFile", "WriteFile"}
    /\ LastFileOp.n <= BYTES_PER_SECTOR

\* C34: a ReadFile or WriteFile of at most 512 bytes, at whatever offset,
\* reads and writes no byte of memory outside the 512 bytes of the
\* file_buffer it has allocated.
C34_StaysInsideFileBuffer ==
    [][IsReadOrWriteOfASector => (heapOverflow' => heapOverflow)]_vars

\* The writes of the history to the file of the name that have covered the
\* byte at the offset o.
WritesCovering(name, o) ==
    {i \in 1..Len(fileOps) :
        /\ fileOps[i].op = "WriteFile"
        /\ fileOps[i].name = name
        /\ fileOps[i].n <= o
        /\ o < fileOps[i].n + Len(fileOps[i].bytes)}

\* The byte the last of them has written there.
LastWritten(name, o) ==
    LET i == CHOOSE w \in WritesCovering(name, o) : \A v \in WritesCovering(name, o) : v <= w
    IN  fileOps[i].bytes[o - fileOps[i].n + 1]

\* The handles of the descriptors in the FileDescriptorList whose file has
\* the name.
HandlesOpenOn(name) ==
    {h \in OpenHandles : FileOfHandle(h) = name}

\* C35: with two descriptors open on a file, after any seeks and writes
\* through them every byte below the size of the file that a write has
\* covered reads back as the last write that has covered it has left it.
C35_NoWriteIsLost ==
    \A name \in {SHELL_BIN} :
        Cardinality(HandlesOpenOn(name)) >= 2 =>
            LET rootEntry == FindRootDirectoryEntry(ROOT_DIRECTORY_BUFFER, name)
                FileSize == RootEntryAt(ROOT_DIRECTORY_BUFFER, rootEntry).FileSize
            IN  \A o \in 0..(FileSize - 1) :
                    WritesCovering(name, o) # {} =>
                        ReadBack(FileSystem, rootEntry, o, 1) = <<LastWritten(name, o)>>


\* The root directory entries in use whose chain a cluster lies on.
OwnersOf(c) ==
    {i \in 0..(Len(ROOT_DIRECTORY_BUFFER) - 1) :
        /\ CharAt(RootEntryAt(ROOT_DIRECTORY_BUFFER, i).FileName, 0) # 0
        /\ LET chain == FATChain(FAT_BUFFER, RootEntryAt(ROOT_DIRECTORY_BUFFER, i).FirstCluster,
                                 FatClusters)
           IN  \E k \in 1..Len(chain) : chain[k] = c}

\* C36: after any sequence of file operations every cluster whose FAT entry
\* is not 0 is reachable from the first cluster of exactly one root
\* directory entry: no cluster belongs to two files and none is allocated
\* without a file that owns it.
C36_EveryUsedClusterHasOneOwner ==
    \A c \in Clusters : FATRead(FAT_BUFFER, c) # 0 => Cardinality(OwnersOf(c)) = 1

\* Next and Previous agree along the entries that are reachable from
\* RootEntry, and Count is their number.
LinksAgree(LS) ==
    LET linked == ListAddrs(LS)
    IN  /\ LS.List.Count = Len(linked)
        /\ \A k \in 1..Len(linked) :
             LS.Entry[linked[k]].Previous = IF k = 1 THEN NULL ELSE linked[k - 1]

\* The keys of the entries that are reachable from RootEntry, in order.
KeysOf(LS) == [k \in 1..Len(ListAddrs(LS)) |-> LS.Entry[ListAddrs(LS)[k]].Key]

\* A step in which ReleasePageFrame has called RemoveEntryFromList.
IsRemoveEntryFromList == tracked'.List.Count = tracked.List.Count - 1

\* C37: RemoveEntryFromList on any entry of a list (the head, a middle
\* entry, the tail or the only entry) unlinks exactly that entry without a
\* store through a null pointer: the other entries stay reachable from
\* RootEntry in their order, Next and Previous agree and Count is the
\* number of the reachable entries.
C37_RemoveWithoutNullDereference ==
    [][IsRemoveEntryFromList =>
           /\ \E i \in 1..Len(KeysOf(tracked)) : KeysOf(tracked)' = Without(KeysOf(tracked), i)
           /\ LinksAgree(tracked)'
           /\ tracked'.NullWrite => tracked.NullWrite]_vars
\* C38: after MapVirtualAddressToPhysicalAddress(v, p) has returned, the
\* page table entry of v is present and its frame is p / 4096, whether v
\* was unmapped or mapped to another page frame before the call.
C38_MapInstallsTheFrame ==
    mapCall.returned =>
        /\ mapCall.entry.Present = 1
        /\ mapCall.entry.Frame = mapCall.p \div SMALL_PAGE_SIZE
\* The pointers malloc has returned that nobody has freed: those of the
\* tasks and those of the ListEntries of the TaskList.
LivePointers == allocated \cup ListEntryBlocks

\* The bytes of the payload of the block with the pointer ptr.
PayloadFirst(ptr) == ptr

PayloadLast(mem, ptr) == ptr - HEADER_SIZE + HeapBlock(mem, ptr - HEADER_SIZE).Size - 1

\* The addresses at which the step has written a header.
WrittenHeaders ==
    {x \in DOMAIN heap \cup DOMAIN heap' : HeapBlock(heap', x) # HeapBlock(heap, x)}

\* The live allocations lie in the heap and no two of them overlap.
LiveAllocationsAreDisjoint ==
    /\ allocated \cap ListEntryBlocks = {}
    /\ \A p \in LivePointers :
         /\ p - HEADER_SIZE >= HEAP_START_OFFSET
         /\ PayloadLast(heap, p) < HEAP_END_OFFSET
         /\ PayloadLast(heap, p) >= PayloadFirst(p)
    /\ \A p, q \in LivePointers :
         p < q => PayloadLast(heap, p) < q - HEADER_SIZE

\* C39: the payloads of the allocations that are live at the same time are
\* pairwise disjoint and lie inside the heap, and no step of malloc or free
\* for one block changes the header or writes into the payload of another
\* block that is in use.
C39_LiveBlocksAreDisjointAndUntouched ==
    [][/\ LiveAllocationsAreDisjoint'
       /\ \A p \in LivePointers \cap LivePointers' :
            /\ HeapBlock(heap', p - HEADER_SIZE) = HeapBlock(heap, p - HEADER_SIZE)
            /\ \A x \in WrittenHeaders : x < PayloadFirst(p) \/ x > PayloadLast(heap, p)]_vars
\* C40: from a valid date and time on, after any number of increments by a
\* second the clock is valid: second and minute in 0..59, hour in 0..23,
\* month in 1..12 and day in 1..the number of days of the month.
C40_ClockStaysValid == ValidDate(systemDate)

=============================================================================
